---- MODULE Spec2Model ----
(***************************************************************************)
(* Authentication core of the tasks-crud service: the in-memory user       *)
(* repository, AuthService (Register, Login, GenerateToken, ValidateToken),*)
(* JWTAuthMiddleware in front of the task routes, and the task handlers    *)
(* behind it.                                                              *)
(*                                                                         *)
(* Time is counted in ticks of 1/TicksPerSec second, so that the           *)
(* truncation of jwt.NewNumericDate to whole seconds is visible.           *)
(* The HMAC of golang-jwt is modelled as an ideal MAC: the tag is the term *)
(* (algorithm, key, signing input), equal to another tag only when all     *)
(* three are equal.                                                        *)
(*                                                                         *)
(* Register and Login are modelled twice: as one step per request          *)
(* (RegisterHandler, LoginHandler), and as the steps of a goroutine that   *)
(* takes and releases the repository lock (RegisterStart ... CreateReturn, *)
(* LoginStart ... VerifyPasswordStep), so that requests interleave.        *)
(* bcrypt is modelled by the bytes of the password its key schedule reads. *)
(***************************************************************************)
EXTENDS Integers, Sequences, FiniteSets, TLC

VARIABLES
    now,            \* the wall clock time.Now() reads, in ticks
    jwtSecret,      \* cfg.JWTSecret
    jwtExpiry,      \* cfg.JWTExpiry, in ticks
    users,          \* InMemoryUserRepository.users
    emails,         \* InMemoryUserRepository.emails
    currentID,      \* InMemoryUserRepository.currentID
    tasks,          \* InMemoryTaskRepository.tasks
    taskCurrentID,  \* InMemoryTaskRepository.currentID
    session,        \* the token the client holds
    authResp,       \* the answer to the Register or Login request of the last step
    req,            \* the request to a protected route answered in the last step
    failLog,        \* the answers given so far to tokens ValidateToken refused
    mu,             \* InMemoryUserRepository.mu
    calls,          \* the Register and Login requests in flight, one per goroutine
    environ,        \* the environment variables of the process
    loaded,         \* the outcome of the last call of config.Load
    taskMu,         \* InMemoryTaskRepository.mu
    taskCalls       \* the task requests in flight, one per goroutine

cfgVars == <<jwtSecret, jwtExpiry>>
userVars == <<users, emails, currentID>>
taskVars == <<tasks, taskCurrentID>>

lockVars == <<mu, calls>>
envVars == <<environ, loaded>>
taskLockVars == <<taskMu, taskCalls>>

vars == <<now, jwtSecret, jwtExpiry, users, emails, currentID,
          tasks, taskCurrentID, session, authResp, req, failLog,
          mu, calls, environ, loaded, taskMu, taskCalls>>

(***************************************************************************)
(* Bounds of the model.                                                    *)
(***************************************************************************)
MaxTime == 4
MaxUserID == 2
MaxTaskID == 3

TicksPerSec == 2

(***************************************************************************)
(* Input sets.                                                             *)
(***************************************************************************)
DefaultSecret == "your-secret-key-change-in-production"
Secrets == {DefaultSecret, "s1"}
Expiries == {0, TicksPerSec, TicksPerSec + 1}
Usernames == {"alice"}
Emails == {"a@x.com", "admin@example.com"}

(***************************************************************************)
(* Clock arithmetic: jwt.NewNumericDate(t) = t.Truncate(time.Second).      *)
(***************************************************************************)
\* NewNumericDate rounding up to the next whole second.
NewNumericDateRoundsUp(t) == (t + TicksPerSec - 1) \div TicksPerSec

NewNumericDate(t) == t \div TicksPerSec

\* The instant (in ticks) a NumericDate denotes.
TimeOf(sec) == sec * TicksPerSec

(***************************************************************************)
(* Tokens. A token string is three segments: header (only its "alg" is     *)
(* modelled), claims, signature. segs is the number of dot-separated       *)
(* segments of the string.                                                 *)
(***************************************************************************)
NoClaims == [user_id |-> 0, username |-> "", email |-> "",
             exp |-> 0, iat |-> 0, nbf |-> 0, iss |-> "", sub |-> 0]

NoSig == [alg |-> "", key |-> "", hdr |-> "", claims |-> NoClaims]

\* The tag HMAC-<alg>(key, header "." claims).
Hmac(alg, key, hdr, claims) ==
    [alg |-> alg, key |-> key, hdr |-> hdr, claims |-> claims]

Garbage == [segs |-> 1, hdr |-> "garbage", claims |-> NoClaims, sig |-> NoSig]
EmptyToken == [segs |-> 1, hdr |-> "", claims |-> NoClaims, sig |-> NoSig]

HmacAlgs == {"HS256", "HS384", "HS512"}
OtherAlgs == {"none", "RS256"}
KnownAlgs == HmacAlgs \cup OtherAlgs

\* MakeClaims leaving the UserID field of Claims unset (only Subject set).
MakeClaimsNoUserID(u, ttl, t1, t2, t3) ==
    [user_id |-> 0, username |-> u.Username, email |-> u.Email,
     exp |-> NewNumericDate(t1 + ttl),
     iat |-> NewNumericDate(t2),
     nbf |-> NewNumericDate(t3),
     iss |-> "todo-api", sub |-> u.ID]

\* Claims built by GenerateToken for user u under ttl, the clock being read
\* three times (t1 <= t2 <= t3).
MakeClaims(u, ttl, t1, t2, t3) ==
    [user_id |-> u.ID, username |-> u.Username, email |-> u.Email,
     exp |-> NewNumericDate(t1 + ttl),
     iat |-> NewNumericDate(t2),
     nbf |-> NewNumericDate(t3),
     iss |-> "todo-api", sub |-> u.ID]

GenerateToken(u, secret, ttl, t1, t2, t3) ==
    LET c == MakeClaims(u, ttl, t1, t2, t3)
    IN  [segs |-> 3, hdr |-> "HS256", claims |-> c,
         sig |-> Hmac("HS256", secret, "HS256", c)]

\* The key function ValidateToken hands to jwt.ParseWithClaims.
KeyfuncOk(alg) == alg \in HmacAlgs

\* token.Method.Verify(signingString, signature, key) with a []byte key.
MethodVerify(tok, key) ==
    /\ tok.hdr \in HmacAlgs
    /\ tok.sig = Hmac(tok.hdr, key, tok.hdr, tok.claims)

\* ClaimsError with a leeway of one second on the expiry.
ClaimsErrorLeeway(c, t) ==
    IF ~(t < TimeOf(c.exp) + TicksPerSec) THEN "expired"
    ELSE IF t < TimeOf(c.nbf) THEN "not_valid_yet"
    ELSE "nil"

\* ClaimsError refusing a token only at its expiry instant, not after it.
ClaimsErrorExactInstant(c, t) ==
    IF t = TimeOf(c.exp) THEN "expired"
    ELSE IF t < TimeOf(c.nbf) THEN "not_valid_yet"
    ELSE "nil"

\* jwt.Validator.Validate: exp and nbf against the clock (iat is not checked
\* by default, issuer and subject are not expected).
ClaimsError(c, t) ==
    IF ~(t < TimeOf(c.exp)) THEN "expired"
    ELSE IF t < TimeOf(c.nbf) THEN "not_valid_yet"
    ELSE "nil"

\* jwt.ParseWithClaims with ValidateToken's key function: the kind of the
\* error, "nil" when the token is valid.
ParseWithClaims(tok, secret, t) ==
    IF tok.segs # 3 \/ tok.hdr = "garbage" THEN "malformed"
    ELSE IF tok.hdr \notin KnownAlgs THEN "unverifiable"
    ELSE IF ~KeyfuncOk(tok.hdr) THEN "unverifiable"
    ELSE IF ~MethodVerify(tok, secret) THEN "signature_invalid"
    ELSE ClaimsError(tok.claims, t)

\* ValidateToken whose key function accepts the "none" method, so that such a
\* token goes unverified.
ValidateTokenAcceptsNone(tok, secret, t) ==
    IF tok.segs = 3 /\ tok.hdr = "none"
    THEN ClaimsError(tok.claims, t)
    ELSE ParseWithClaims(tok, secret, t)

\* ValidateToken whose key function returns the default secret instead of
\* the configured one.
ValidateTokenDefaultKey(tok, secret, t) == ParseWithClaims(tok, DefaultSecret, t)

\* ValidateToken that also looks the token's user up in the repository.
ValidateTokenChecksStore(tok, secret, t) ==
    IF ParseWithClaims(tok, secret, t) = "nil"
       /\ (tok.claims.user_id \notin DOMAIN users
           \/ users[tok.claims.user_id].Email # tok.claims.email)
    THEN "revoked"
    ELSE ParseWithClaims(tok, secret, t)

\* AuthService.ValidateToken: the error kind, "nil" when the claims are returned.
ValidateToken(tok, secret, t) == ParseWithClaims(tok, secret, t)

(***************************************************************************)
(* Go maps as functions.                                                   *)
(***************************************************************************)
Put(f, k, v) == [x \in DOMAIN f \cup {k} |-> IF x = k THEN v ELSE f[x]]

Remove(f, k) == [x \in DOMAIN f \ {k} |-> f[x]]

(***************************************************************************)
(* Passwords are byte strings, written as runs of equal bytes: Rep(c, n)   *)
(* is n bytes c, Bytes(<<c1, ..., ck>>) the bytes c1 ... ck, and \o joins. *)
(***************************************************************************)
NUL == "NUL"

Rep(c, n) == IF n = 0 THEN <<>> ELSE <<[c |-> c, n |-> n]>>

Bytes(cs) == [i \in 1..Len(cs) |-> [c |-> cs[i], n |-> 1]]

RECURSIVE ByteLen(_)
ByteLen(p) == IF p = <<>> THEN 0 ELSE Head(p).n + ByteLen(Tail(p))

\* The byte at index i, counted from 0.
RECURSIVE ByteAt(_, _)
ByteAt(p, i) ==
    IF i < Head(p).n THEN Head(p).c ELSE ByteAt(Tail(p), i - Head(p).n)

\* A byte sequence written as runs, adjacent equal bytes joined.
RunStarts(bs) == {i \in 1..Len(bs) : i = 1 \/ bs[i] # bs[i - 1]}

RunFrom(bs, i) ==
    LET later == {j \in RunStarts(bs) : j > i}
        next == IF later = {} THEN Len(bs) + 1
                ELSE CHOOSE j \in later : \A k \in later : j <= k
    IN  [c |-> bs[i], n |-> next - i]

Runs(bs) ==
    [k \in 1..Cardinality(RunStarts(bs)) |->
        RunFrom(bs, CHOOSE i \in RunStarts(bs) :
                        Cardinality({j \in RunStarts(bs) : j <= i}) = k)]

LongEnough == Rep("p", 11)
Short == Rep("p", 5)
AdminPassword == Bytes(<<"a", "d", "m", "i", "n", "1", "2", "3">>)
Passwords == {LongEnough, Short}

(***************************************************************************)
(* Password hasher. bcrypt appends a NUL byte to the password and feeds    *)
(* the Blowfish key schedule 18 words of 4 bytes, read from that key       *)
(* cyclically: the hash depends on the password only through these         *)
(* MaxKeyBytes bytes. GenerateFromPassword refuses a password longer than  *)
(* MaxKeyBytes; CompareHashAndPassword takes any length. The hash string   *)
(* keeps the salt and the cost, CompareHashAndPassword recomputes with     *)
(* them, and fails on a string that is no bcrypt hash.                     *)
(***************************************************************************)
BcryptCost == 12
MaxKeyBytes == 72
Salts == {"saltA"}

\* blowfish.ExpandKey over the password followed by NUL.
ExpandKey(password) ==
    LET key == password \o Rep(NUL, 1)
    IN  Runs([i \in 1..MaxKeyBytes |-> ByteAt(key, (i - 1) % ByteLen(key))])

\* The passwords of the model, and the key schedule of each.
HasherPasswords ==
    {<<>>, AdminPassword, LongEnough, Short,
     Rep("p", 8), Rep("q", 8), Rep("p", 8) \o Rep(NUL, 1) \o Rep("p", 8),
     Rep("p", MaxKeyBytes), Rep("p", MaxKeyBytes) \o Rep("x", 1),
     Rep("p", MaxKeyBytes - 1) \o Rep("x", 1)}

BlowfishKey == [p \in HasherPasswords |-> ExpandKey(p)]

\* A stored string that is no bcrypt hash (the empty string among them).
NoHash == [wf |-> FALSE, key |-> <<>>, salt |-> "", cost |-> 0]

BcryptHash(password, salt, cost) ==
    [wf |-> TRUE, key |-> BlowfishKey[password], salt |-> salt, cost |-> cost]

GenerateFromPassword(password, salt, cost) ==
    IF ByteLen(password) > MaxKeyBytes
    THEN [err |-> "password length exceeds 72 bytes", hash |-> NoHash]
    ELSE [err |-> "nil", hash |-> BcryptHash(password, salt, cost)]

CompareHashAndPassword(hashedPassword, password) ==
    IF ~hashedPassword.wf THEN "hashedSecret too short to be a bcrypted password"
    ELSE IF BcryptHash(password, hashedPassword.salt, hashedPassword.cost) # hashedPassword
    THEN "hashedPassword is not the hash of the given password"
    ELSE "nil"

HashPassword(password, salt) ==
    LET g == GenerateFromPassword(password, salt, BcryptCost)
    IN  IF g.err # "nil"
        THEN [err |-> "failed to hash password", hash |-> NoHash]
        ELSE g

VerifyPassword(hashedPassword, password) ==
    CompareHashAndPassword(hashedPassword, password) = "nil"

(***************************************************************************)
(* InMemoryUserRepository. Each operation runs under the repository lock   *)
(* and yields the error ("nil" on success) with the repository after it.   *)
(***************************************************************************)
AdminUser == [ID |-> 1, Username |-> "admin", Email |-> "admin@example.com",
              PasswordHash |-> BcryptHash(AdminPassword, "N9qo8uLOickgx2ZMRZoMye", 12)]

NoUser == [ID |-> 0, Username |-> "", Email |-> "", PasswordHash |-> NoHash]

NewInMemoryUserRepository ==
    [users |-> Put(<<>>, 1, AdminUser),
     emails |-> Put(<<>>, "admin@example.com", 1),
     currentID |-> 2]

Repo == [users |-> users, emails |-> emails, currentID |-> currentID]

\* Create: the two uniqueness checks.
CreateCheck(r, user) ==
    IF user.Email \in DOMAIN r.emails THEN "email already exists"
    ELSE IF \E id \in DOMAIN r.users : r.users[id].Username = user.Username
    THEN "username already exists"
    ELSE "nil"

\* Create numbering the new user by the number of stored users.
CreateInsertCountsUsers(r, user) ==
    LET n == Cardinality(DOMAIN r.users) + 1
        u == [user EXCEPT !.ID = n]
    IN  [err |-> "nil",
         repo |-> [users |-> Put(r.users, n, u),
                   emails |-> Put(r.emails, u.Email, n),
                   currentID |-> n + 1],
         user |-> u]

\* Create storing the user without an entry in the email index.
CreateInsertNoIndex(r, user) ==
    LET u == [user EXCEPT !.ID = r.currentID]
    IN  [err |-> "nil",
         repo |-> [users |-> Put(r.users, r.currentID, u),
                   emails |-> r.emails,
                   currentID |-> r.currentID + 1],
         user |-> u]

\* Create: the insertion under the next id.
CreateInsert(r, user) ==
    LET u == [user EXCEPT !.ID = r.currentID]
    IN  [err |-> "nil",
         repo |-> [users |-> Put(r.users, r.currentID, u),
                   emails |-> Put(r.emails, u.Email, r.currentID),
                   currentID |-> r.currentID + 1],
         user |-> u]

UserCreate(r, user) ==
    IF CreateCheck(r, user) # "nil"
    THEN [err |-> CreateCheck(r, user), repo |-> r, user |-> user]
    ELSE CreateInsert(r, user)

\* GetByEmail finding nobody.
GetByEmailNeverFound(r, email) == [err |-> "email not found", user |-> NoUser]

GetByEmail(r, email) ==
    IF email \notin DOMAIN r.emails
    THEN [err |-> "email not found", user |-> NoUser]
    ELSE IF r.emails[email] \notin DOMAIN r.users
    THEN [err |-> "user not found", user |-> NoUser]
    ELSE [err |-> "nil", user |-> r.users[r.emails[email]]]

\* Update without the check that the new email is free.
UserUpdateNoEmailCheck(r, user) ==
    IF user.ID \notin DOMAIN r.users
    THEN [err |-> "id not found", repo |-> r]
    ELSE LET oldUser == r.users[user.ID]
         IN  [err |-> "nil",
              repo |-> [r EXCEPT
                  !.emails = IF oldUser.Email # user.Email
                             THEN Put(Remove(r.emails, oldUser.Email),
                                      user.Email, user.ID)
                             ELSE r.emails,
                  !.users = Put(r.users, user.ID, user)]]

UserUpdate(r, user) ==
    IF user.ID \notin DOMAIN r.users
    THEN [err |-> "id not found", repo |-> r]
    ELSE LET oldUser == r.users[user.ID]
         IN  IF oldUser.Email # user.Email /\ user.Email \in DOMAIN r.emails
             THEN [err |-> "email already exists", repo |-> r]
             ELSE [err |-> "nil",
                   repo |-> [r EXCEPT
                       !.emails = IF oldUser.Email # user.Email
                                  THEN Put(Remove(r.emails, oldUser.Email),
                                           user.Email, user.ID)
                                  ELSE r.emails,
                       !.users = Put(r.users, user.ID, user)]]

\* Delete leaving the user's entry in the email index.
UserDeleteKeepsIndex(r, id) ==
    IF id \notin DOMAIN r.users
    THEN [err |-> "id not found", repo |-> r]
    ELSE [err |-> "nil", repo |-> [r EXCEPT !.users = Remove(r.users, id)]]

UserDelete(r, id) ==
    IF id \notin DOMAIN r.users
    THEN [err |-> "id not found", repo |-> r]
    ELSE [err |-> "nil",
          repo |-> [r EXCEPT !.emails = Remove(r.emails, r.users[id].Email),
                             !.users = Remove(r.users, id)]]

(***************************************************************************)
(* AuthService.Register and AuthService.Login, run without interleaving.   *)
(***************************************************************************)
ServiceRegister(r, username, email, password, salt) ==
    IF GetByEmail(r, email).err = "nil"
    THEN [err |-> "user with this email already exists", repo |-> r, user |-> NoUser]
    ELSE LET h == HashPassword(password, salt)
             c == UserCreate(r, [ID |-> 0, Username |-> username, Email |-> email,
                                 PasswordHash |-> h.hash])
         IN  IF h.err # "nil"
             THEN [err |-> "failed to hash password", repo |-> r, user |-> NoUser]
             ELSE IF c.err # "nil"
             THEN [err |-> "failed to create user", repo |-> r, user |-> NoUser]
             ELSE [err |-> "nil", repo |-> c.repo, user |-> c.user]

\* AuthService.Login telling the two failures apart.
LoginErrorLeaky(cause) == cause

\* The error AuthService.Login returns when the lookup failed ("not found")
\* and when the password did not verify ("wrong password").
LoginError(cause) == "invalid credentials"

ServiceLogin(r, email, password) ==
    LET g == GetByEmail(r, email)
    IN  IF g.err # "nil"
        THEN [err |-> LoginError("not found"), user |-> NoUser]
        ELSE IF ~VerifyPassword(g.user.PasswordHash, password)
        THEN [err |-> LoginError("wrong password"), user |-> NoUser]
        ELSE [err |-> "nil", user |-> g.user]

(***************************************************************************)
(* The token a client holds: the last one a Register or Login response     *)
(* carried, with the clock reading its expiry was computed from (T), the   *)
(* time GenerateToken returned (at), and the ttl and the secret of the     *)
(* service that issued it.                                                 *)
(***************************************************************************)
NoSession == [has |-> FALSE, token |-> EmptyToken, T |-> 0, at |-> 0, ttl |-> 0,
              secret |-> "", user |-> NoUser]

Issue(user, t1, t2, t3) ==
    [has |-> TRUE,
     token |-> GenerateToken(user, jwtSecret, jwtExpiry, t1, t2, t3),
     T |-> t1, at |-> t3, ttl |-> jwtExpiry, secret |-> jwtSecret, user |-> user]

\* GenerateToken reads time.Now() three times: d[1] and d[2] are the ticks
\* that passed from the first reading to the second and to the third.
ClockReads == {<<0, 0>>, <<1, 1>>}

NoReq == [header |-> <<>>, validated |-> 0, err |-> "none",
          status |-> 0, body |-> "", ctxSet |-> FALSE, ctxUserID |-> 0,
          ctxUsername |-> "", forwarded |-> 0, op |-> "none", storeOps |-> 0]

NoAuthResp == [op |-> "none", status |-> 0, err |-> "nil"]

(***************************************************************************)
(* The Authorization header is a sequence of atoms: a space, a word        *)
(* without spaces, or a whole token string.                                *)
(***************************************************************************)
SP == [k |-> "sp", w |-> " ", tok |-> EmptyToken]

Word(w) == [k |-> "w", w |-> w, tok |-> EmptyToken]

Tok(t) == [k |-> "tok", w |-> "", tok |-> t]

\* strings.Split(h, " "): the parts between single spaces, empty parts kept.
RECURSIVE Split(_)
Split(h) ==
    IF h = <<>> THEN << <<>> >>
    ELSE LET rest == Split(Tail(h))
         IN  IF Head(h).k = "sp"
             THEN << <<>> >> \o rest
             ELSE << <<Head(h)>> \o rest[1] >> \o Tail(rest)

\* The token string a part of the header spells.
TokenOf(part) ==
    IF part = <<>> THEN EmptyToken
    ELSE IF Len(part) = 1 /\ part[1].k = "tok" THEN part[1].tok
    ELSE Garbage

Bearer(t) == <<Word("Bearer"), SP, Tok(t)>>

(***************************************************************************)
(* JWTAuthMiddleware: what it does with a request before (and instead of)  *)
(* the next handler.                                                       *)
(***************************************************************************)
Reject(body, validated, err) ==
    [validated |-> validated, err |-> err, status |-> 401, body |-> body,
     ctxSet |-> FALSE, ctxUserID |-> 0, ctxUsername |-> "", forwarded |-> 0]

\* FormatOk without the comparison of parts[0] with "Bearer".
FormatOkAnyScheme(parts) == Len(parts) = 2

FormatOk(parts) == Len(parts) = 2 /\ parts[1] = <<Word("Bearer")>>

\* JWTAuthMiddleware without the return after http.Error in the ValidateToken
\* branch: the 401 is written and next is still called.
JWTAuthMiddlewareNoReturn(authHeader, secret, t) ==
    IF authHeader = <<>>
    THEN Reject("Authorization header is required", 0, "none")
    ELSE LET parts == Split(authHeader)
         IN  IF ~FormatOk(parts)
             THEN Reject("Invalid authorization format. Use: Bearer <token>", 0, "none")
             ELSE LET tokenString == TokenOf(parts[2])
                      err == ValidateToken(tokenString, secret, t)
                  IN  [validated |-> 1, err |-> err,
                       status |-> IF err # "nil" THEN 401 ELSE 0,
                       body |-> IF err # "nil" THEN "Invalid or expired token" ELSE "",
                       ctxSet |-> TRUE,
                       ctxUserID |-> tokenString.claims.user_id,
                       ctxUsername |-> tokenString.claims.username,
                       forwarded |-> 1]

\* JWTAuthMiddleware answering a refused token with the error's own text.
JWTAuthMiddlewareLeaky(authHeader, secret, t) ==
    IF authHeader = <<>>
    THEN Reject("Authorization header is required", 0, "none")
    ELSE LET parts == Split(authHeader)
         IN  IF ~FormatOk(parts)
             THEN Reject("Invalid authorization format. Use: Bearer <token>", 0, "none")
             ELSE LET tokenString == TokenOf(parts[2])
                      err == ValidateToken(tokenString, secret, t)
                  IN  IF err # "nil"
                      THEN Reject(err, 1, err)
                      ELSE [validated |-> 1, err |-> "nil", status |-> 0, body |-> "",
                            ctxSet |-> TRUE,
                            ctxUserID |-> tokenString.claims.user_id,
                            ctxUsername |-> tokenString.claims.username,
                            forwarded |-> 1]

JWTAuthMiddleware(authHeader, secret, t) ==
    IF authHeader = <<>>
    THEN Reject("Authorization header is required", 0, "none")
    ELSE LET parts == Split(authHeader)
         IN  IF ~FormatOk(parts)
             THEN Reject("Invalid authorization format. Use: Bearer <token>", 0, "none")
             ELSE LET tokenString == TokenOf(parts[2])
                      err == ValidateToken(tokenString, secret, t)
                  IN  IF err # "nil"
                      THEN Reject("Invalid or expired token", 1, err)
                      ELSE [validated |-> 1, err |-> "nil", status |-> 0, body |-> "",
                            ctxSet |-> TRUE,
                            ctxUserID |-> tokenString.claims.user_id,
                            ctxUsername |-> tokenString.claims.username,
                            forwarded |-> 1]

(***************************************************************************)
(* Task titles: the text without surrounding white space and in lower case *)
(* (core), whether white space surrounds it (pad) and whether it has upper *)
(* case letters (upper). n is len(title).                                  *)
(***************************************************************************)
Title(core, pad, upper, n) == [core |-> core, pad |-> pad, upper |-> upper, n |-> n]

TrimSpace(t) == [t EXCEPT !.pad = FALSE, !.n = IF t.pad THEN t.n - 2 ELSE t.n]

ToLower(t) == [t EXCEPT !.upper = FALSE]

EmptyTitle == Title("", FALSE, FALSE, 0)

MaxTitleLen == 200

(***************************************************************************)
(* InMemoryTaskRepository and TaskService, run without interleaving.       *)
(* A result is the HTTP status the task handler answers, the store after   *)
(* it and the number of repository calls made.                             *)
(***************************************************************************)
NewInMemoryTaskRepository ==
    [tasks |-> Put(Put(<<>>, 1, [ID |-> 1, Title |-> Title("learn go basics", FALSE, TRUE, 17),
                                 Completed |-> FALSE]),
                   2, [ID |-> 2, Title |-> Title("write the first api", FALSE, TRUE, 19),
                       Completed |-> TRUE]),
     currentID |-> 3]

TaskStore == [tasks |-> tasks, currentID |-> taskCurrentID]

TaskResult(status, store, n) == [status |-> status, store |-> store, storeOps |-> n]

isDuplicateTitle(ts, title) ==
    \E id \in DOMAIN ts.tasks :
        ToLower(TrimSpace(ts.tasks[id].Title)) = ToLower(TrimSpace(title))

GetAllTasks(ts) == TaskResult(200, ts, 1)

GetTaskByID(ts, id) ==
    IF id <= 0 THEN TaskResult(404, ts, 0)
    ELSE IF id \notin DOMAIN ts.tasks THEN TaskResult(404, ts, 1)
    ELSE TaskResult(200, ts, 1)

CreateTask(ts, title) ==
    IF TrimSpace(title).core = "" THEN TaskResult(400, ts, 0)
    ELSE IF title.n > MaxTitleLen THEN TaskResult(400, ts, 0)
    ELSE IF isDuplicateTitle(ts, TrimSpace(title)) THEN TaskResult(400, ts, 1)
    ELSE TaskResult(201,
                    [tasks |-> Put(ts.tasks, ts.currentID,
                                   [ID |-> ts.currentID, Title |-> TrimSpace(title),
                                    Completed |-> FALSE]),
                     currentID |-> ts.currentID + 1],
                    2)

\* hasTitle / hasCompleted: the request's Title / Completed pointer is not nil.
UpdateTask(ts, id, hasTitle, title, hasCompleted, completed) ==
    IF id <= 0 THEN TaskResult(400, ts, 0)
    ELSE IF hasTitle /\ TrimSpace(title).core = "" THEN TaskResult(400, ts, 0)
    ELSE IF hasTitle /\ TrimSpace(title).n > MaxTitleLen THEN TaskResult(400, ts, 0)
    ELSE IF id \notin DOMAIN ts.tasks THEN TaskResult(404, ts, 1)
    ELSE LET existingTask == ts.tasks[id]
             updatedTask == [existingTask EXCEPT
                 !.Title = IF hasTitle THEN TrimSpace(title) ELSE @,
                 !.Completed = IF hasCompleted THEN completed ELSE @]
         IN  TaskResult(200, [ts EXCEPT !.tasks = Put(ts.tasks, id, updatedTask)], 2)

DeleteTask(ts, id) ==
    IF id <= 0 THEN TaskResult(404, ts, 0)
    ELSE IF id \notin DOMAIN ts.tasks THEN TaskResult(404, ts, 1)
    ELSE TaskResult(204, [ts EXCEPT !.tasks = Remove(ts.tasks, id)], 2)

\* The routes of the protected subrouter, with the request's parameters.
Route(name, id, hasTitle, title, hasCompleted, completed) ==
    [name |-> name, id |-> id, hasTitle |-> hasTitle, title |-> title,
     hasCompleted |-> hasCompleted, completed |-> completed]

TaskHandler(ts, r) ==
    CASE r.name = "GetAllTasks" -> GetAllTasks(ts)
      [] r.name = "GetTaskByID" -> GetTaskByID(ts, r.id)
      [] r.name = "CreateTask" -> CreateTask(ts, r.title)
      [] r.name = "UpdateTask" ->
            UpdateTask(ts, r.id, r.hasTitle, r.title, r.hasCompleted, r.completed)
      [] r.name = "DeleteTask" -> DeleteTask(ts, r.id)

(***************************************************************************)
(* What a client can put in a request. Besides the token it holds it can   *)
(* alter that token's header or claims (the signature then no longer       *)
(* covers them), drop the signature, or sign claims of its choice with a   *)
(* key it knows: the default secret is public.                             *)
(***************************************************************************)
Tampered(t) ==
    {[t EXCEPT !.hdr = a] : a \in {"none", "RS256", "HS384", "XX"}}
    \cup {[t EXCEPT !.hdr = "none", !.sig = NoSig],
          [t EXCEPT !.claims.exp = @ + 1],
          [t EXCEPT !.claims.user_id = 1, !.claims.username = "admin"]}

Minted(t) ==
    {[segs |-> 3, hdr |-> a, claims |-> c, sig |-> Hmac(a, DefaultSecret, a, c)] :
        a \in {"HS256", "HS512"},
        c \in {[NoClaims EXCEPT !.user_id = 1, !.username = "admin",
                                !.exp = NewNumericDate(t) + 1, !.nbf = n] :
                  n \in {NewNumericDate(t), NewNumericDate(t) + 1}}}

ClientTokens ==
    {Garbage, EmptyToken} \cup Minted(now)
    \cup (IF session.has THEN {session.token} \cup Tampered(session.token) ELSE {})

MalformedHeaders ==
    { <<>>,
      <<Word("Bearer")>>,
      <<Word("Basic"), SP, Word("xyz")>>,
      <<Word("bearer"), SP, Word("x")>>,
      <<Word("Bearer"), SP, Word("a"), SP, Word("b")>>,
      <<Word("Bearer"), SP, SP, Word("x")>>,
      <<SP, Word("Bearer"), SP, Word("x")>>,
      <<Word("Bearer"), Word("x")>> }

Headers ==
    MalformedHeaders
    \cup {<<Word("Bearer"), SP>>, <<Word("Bearer"), SP, Word("garbage")>>}
    \cup {Bearer(t) : t \in ClientTokens}
    \cup (IF session.has
          THEN {<<Word("Basic"), SP, Tok(session.token)>>,
                <<Word("bearer"), SP, Tok(session.token)>>,
                <<Tok(session.token)>>,
                <<Word("Bearer"), SP, Tok(session.token), SP, Word("x")>>}
          ELSE {})

ReadRoutes ==
    {Route("GetAllTasks", 0, FALSE, EmptyTitle, FALSE, FALSE)}

Routes ==
    ReadRoutes
    \cup {Route("GetTaskByID", 1, FALSE, EmptyTitle, FALSE, FALSE),
          Route("CreateTask", 0, TRUE, Title("x", TRUE, FALSE, 3), FALSE, FALSE),
          Route("UpdateTask", 2, FALSE, EmptyTitle, TRUE, FALSE),
          Route("DeleteTask", 1, FALSE, EmptyTitle, FALSE, FALSE)}

(***************************************************************************)
(* config.Load. An environment variable is unset or set to a string (the   *)
(* empty string included); os.LookupEnv tells the two apart.               *)
(***************************************************************************)
Unset == [set |-> FALSE, val |-> ""]

Set(v) == [set |-> TRUE, val |-> v]

EnvKeys == {"PORT", "ENV", "JWT_SECRET", "JWT_EXPIRY", "BCRYPT_COST"}

NoEnviron == [k \in EnvKeys |-> Unset]

DefaultPort == 8080
DefaultExpiry == 24 * 3600 * TicksPerSec

\* strconv.Atoi and time.ParseDuration on the strings of the model: the
\* value, or -1 for an error.
Atoi(v) ==
    CASE v = "4" -> 4
      [] v = "9090" -> 9090
      [] OTHER -> -1

ParseDuration(v) ==
    CASE v = "0" -> 0
      [] v = "1s" -> TicksPerSec
      [] OTHER -> -1

getEnv(env, key, defaultValue) ==
    IF env[key].set THEN env[key].val ELSE defaultValue

getEnvAsInt(env, key, defaultValue) ==
    IF env[key].set /\ Atoi(env[key].val) # -1 THEN Atoi(env[key].val)
    ELSE defaultValue

getEnvAsDuration(env, key, defaultValue) ==
    IF env[key].set /\ ParseDuration(env[key].val) # -1 THEN ParseDuration(env[key].val)
    ELSE defaultValue

NoConfig == [Port |-> 0, Env |-> "", JWTSecret |-> "", JWTExpiry |-> 0, BcryptCost |-> 0]

NotLoaded == [called |-> FALSE, panic |-> FALSE, cfg |-> NoConfig]

\* Load panicking in production only when JWT_SECRET is not set at all.
LoadPanicsWhenUnset(env) ==
    LET port == getEnvAsInt(env, "PORT", DefaultPort)
        e == getEnv(env, "ENV", "development")
        jwtSecretV == getEnv(env, "JWT_SECRET", DefaultSecret)
        jwtExpiryV == getEnvAsDuration(env, "JWT_EXPIRY", DefaultExpiry)
        bcryptCost == getEnvAsInt(env, "BCRYPT_COST", BcryptCost)
    IN  IF e = "production" /\ ~env["JWT_SECRET"].set
        THEN [called |-> TRUE, panic |-> TRUE, cfg |-> NoConfig]
        ELSE [called |-> TRUE, panic |-> FALSE,
              cfg |-> [Port |-> port, Env |-> e, JWTSecret |-> jwtSecretV,
                       JWTExpiry |-> jwtExpiryV, BcryptCost |-> bcryptCost]]

Load(env) ==
    LET port == getEnvAsInt(env, "PORT", DefaultPort)
        e == getEnv(env, "ENV", "development")
        jwtSecretV == getEnv(env, "JWT_SECRET", DefaultSecret)
        jwtExpiryV == getEnvAsDuration(env, "JWT_EXPIRY", DefaultExpiry)
        bcryptCost == getEnvAsInt(env, "BCRYPT_COST", BcryptCost)
    IN  IF e = "production" /\ jwtSecretV = DefaultSecret
        THEN [called |-> TRUE, panic |-> TRUE, cfg |-> NoConfig]
        ELSE [called |-> TRUE, panic |-> FALSE,
              cfg |-> [Port |-> port, Env |-> e, JWTSecret |-> jwtSecretV,
                       JWTExpiry |-> jwtExpiryV, BcryptCost |-> bcryptCost]]

\* The values the environment variables are set to.
EnvValues ==
    [k \in EnvKeys |->
        CASE k = "PORT" -> {"9090"}
          [] k = "ENV" -> {"production", "development", "Production"}
          [] k = "JWT_SECRET" -> {DefaultSecret, "s1", ""}
          [] k = "JWT_EXPIRY" -> {"1s", "tomorrow"}
          [] k = "BCRYPT_COST" -> {"4", "high"}]

(***************************************************************************)
(* InMemoryUserRepository.mu, a sync.RWMutex: one writer or any number of  *)
(* readers. A goroutine is named by its number, 0 is no goroutine.         *)
(***************************************************************************)
NoLock == [writer |-> 0, readers |-> {}]

CanRLock(m) == m.writer = 0

\* A write lock that excludes nobody.
CanLockAlways(m) == TRUE

CanLock(m) == m.writer = 0 /\ m.readers = {}

RLock(m, p) == [m EXCEPT !.readers = @ \cup {p}]

\* A read lock kept past the return of GetByEmail.
RUnlockKept(m, p) == m

RUnlock(m, p) == [m EXCEPT !.readers = @ \ {p}]

Lock(m, p) == [m EXCEPT !.writer = p]

Unlock(m, p) == [m EXCEPT !.writer = 0]

Holds(m, p) == m.writer = p \/ p \in m.readers

(***************************************************************************)
(* Register and Login requests served concurrently, one goroutine each.    *)
(* pc is the call of the handler the goroutine is at: "GetByEmail" and     *)
(* "Create" wait for the repository lock, "GetByEmail.locked",             *)
(* "Create.locked" and "Create.insert" hold it, "HashPassword" and         *)
(* "VerifyPassword" run bcrypt, "done" has written the response.           *)
(***************************************************************************)
MaxRepoID == 3
MaxNewTaskID == 4

Procs == {1, 2}

NoCall == [pc |-> "idle", op |-> "none", username |-> "", email |-> "",
           password |-> <<>>, user |-> NoUser, repoErr |-> "nil",
           err |-> "nil", status |-> 0]

NoCalls == [p \in Procs |-> NoCall]

\* sendError and sendJSON: the handler returns, the request body is dropped.
Respond(c, status, err) ==
    [c EXCEPT !.pc = "done", !.status = status, !.err = err, !.password = <<>>]

(***************************************************************************)
(* InMemoryTaskRepository, one method at a time. Every method runs its     *)
(* whole body under r.mu and returns with the deferred unlock.             *)
(***************************************************************************)
NoTask == [ID |-> 0, Title |-> EmptyTitle, Completed |-> FALSE]

TaskRepoGetAll(ts) == {ts.tasks[id] : id \in DOMAIN ts.tasks}

TaskRepoGetByID(ts, id) ==
    IF id \notin DOMAIN ts.tasks
    THEN [err |-> "task with id not found", task |-> NoTask]
    ELSE [err |-> "nil", task |-> ts.tasks[id]]

\* A Create that would look for the title itself, under its write lock.
TaskRepoCreateChecksTitle(ts, task) ==
    IF isDuplicateTitle(ts, task.Title)
    THEN [err |-> "duplicate title", task |-> task, store |-> ts]
    ELSE LET created == [task EXCEPT !.ID = ts.currentID]
         IN  [err |-> "nil", task |-> created,
              store |-> [tasks |-> Put(ts.tasks, ts.currentID, created),
                         currentID |-> ts.currentID + 1]]

\* Create inserts whatever it is handed, whatever the store holds.
TaskRepoCreate(ts, task) ==
    LET created == [task EXCEPT !.ID = ts.currentID]
    IN  [err |-> "nil", task |-> created,
         store |-> [tasks |-> Put(ts.tasks, ts.currentID, created),
                    currentID |-> ts.currentID + 1]]

\* Update writing the task without looking whether the id is stored.
TaskRepoUpdateNoCheck(ts, id, updatedTask) ==
    [err |-> "nil", store |-> [ts EXCEPT !.tasks = Put(ts.tasks, id, updatedTask)]]

TaskRepoUpdate(ts, id, updatedTask) ==
    IF id \notin DOMAIN ts.tasks
    THEN [err |-> "task with id not found", store |-> ts]
    ELSE [err |-> "nil", store |-> [ts EXCEPT !.tasks = Put(ts.tasks, id, updatedTask)]]

TaskRepoDelete(ts, id) ==
    IF id \notin DOMAIN ts.tasks
    THEN [err |-> "task with id not found", store |-> ts]
    ELSE [err |-> "nil", store |-> [ts EXCEPT !.tasks = Remove(ts.tasks, id)]]

(***************************************************************************)
(* TaskService and TaskHandler, one repository call at a time.             *)
(***************************************************************************)
validateCreateRequest(title) ==
    IF TrimSpace(title).core = "" THEN "title is required"
    ELSE IF title.n > MaxTitleLen THEN "title is too long"
    ELSE "nil"

validateUpdateRequest(hasTitle, title) ==
    IF hasTitle /\ TrimSpace(title).core = "" THEN "title cannot be empty"
    ELSE IF hasTitle /\ TrimSpace(title).n > MaxTitleLen THEN "title is too long"
    ELSE "nil"

\* The errors of TaskService whose text contains "not found".
NotFoundErrors ==
    {"task not found: task with id not found",
     "failed to update task: task with id not found",
     "failed to delete task: task with id not found"}

\* The status the handler of the operation answers to the service's error.
TaskStatus(op, err) ==
    CASE op = "CreateTask" -> IF err = "nil" THEN 201 ELSE 400
      [] op = "UpdateTask" -> IF err = "nil" THEN 200
                              ELSE IF err \in NotFoundErrors THEN 404 ELSE 400
      [] op = "DeleteTask" -> IF err = "nil" THEN 204 ELSE 404

(***************************************************************************)
(* A task request in flight. pc is the repository call the goroutine is    *)
(* at: "GetAll", "GetByID", "Create", "Update" and "Delete" wait for the   *)
(* repository lock, the same with ".locked" hold it, "done" has written    *)
(* the response. task is the service's local Task value.                   *)
(***************************************************************************)
TaskProcs == {1, 2, 3}

NoTaskCall == [pc |-> "idle", op |-> "none", id |-> 0,
               hasTitle |-> FALSE, title |-> EmptyTitle,
               hasCompleted |-> FALSE, completed |-> FALSE,
               task |-> NoTask, status |-> 0, err |-> "nil"]

NoTaskCalls == [p \in TaskProcs |-> NoTaskCall]

\* The service returns and the handler writes the response.
TaskRespond(c, err) ==
    [c EXCEPT !.pc = "done", !.err = err, !.status = TaskStatus(c.op, err)]

Init ==
    /\ now = 0
    /\ jwtSecret \in Secrets
    /\ jwtExpiry \in Expiries
    /\ users = NewInMemoryUserRepository.users
    /\ emails = NewInMemoryUserRepository.emails
    /\ currentID = NewInMemoryUserRepository.currentID
    /\ tasks = NewInMemoryTaskRepository.tasks
    /\ taskCurrentID = NewInMemoryTaskRepository.currentID
    /\ session = NoSession
    /\ authResp = NoAuthResp
    /\ req = NoReq
    /\ failLog = {}
    /\ mu = NoLock
    /\ calls = NoCalls
    /\ environ = NoEnviron
    /\ loaded = NotLoaded
    /\ taskMu = NoLock
    /\ taskCalls = NoTaskCalls

\* Time passes.
Tick ==
    /\ now < MaxTime
    /\ now' = now + 1
    /\ authResp' = NoAuthResp
    /\ req' = NoReq
    /\ UNCHANGED <<cfgVars, userVars, taskVars, session, failLog, lockVars, envVars, taskLockVars>>

\* The process is started again with another JWT_SECRET in its environment:
\* config.Load and the constructors of main run, the client keeps its token.
Restart(secret) ==
    /\ secret # jwtSecret
    /\ jwtSecret' = secret
    /\ jwtExpiry' = jwtExpiry
    /\ users' = NewInMemoryUserRepository.users
    /\ emails' = NewInMemoryUserRepository.emails
    /\ currentID' = NewInMemoryUserRepository.currentID
    /\ tasks' = NewInMemoryTaskRepository.tasks
    /\ taskCurrentID' = NewInMemoryTaskRepository.currentID
    /\ authResp' = NoAuthResp
    /\ req' = NoReq
    /\ UNCHANGED <<now, session, failLog, lockVars, envVars, taskLockVars>>

\* AuthHandler.Register.
RegisterHandler(username, email, password, salt, d) ==
    /\ now + d[2] <= MaxTime
    /\ IF ByteLen(password) < 8
       THEN /\ authResp' = [op |-> "Register", status |-> 400, err |-> "password too short"]
            /\ UNCHANGED <<now, userVars, session>>
       ELSE \E reg \in {ServiceRegister(Repo, username, email, password, salt)} :
                IF reg.err # "nil"
                THEN /\ authResp' = [op |-> "Register",
                                     status |-> IF reg.err = "user with this email already exists"
                                                THEN 409 ELSE 400,
                                     err |-> reg.err]
                     /\ UNCHANGED <<now, userVars, session>>
                ELSE /\ currentID <= MaxUserID
                     /\ users' = reg.repo.users
                     /\ emails' = reg.repo.emails
                     /\ currentID' = reg.repo.currentID
                     /\ session' = Issue(reg.user, now, now + d[1], now + d[2])
                     /\ now' = now + d[2]
                     /\ authResp' = [op |-> "Register", status |-> 201, err |-> "nil"]
    /\ req' = NoReq
    /\ UNCHANGED <<cfgVars, taskVars, failLog, lockVars, envVars, taskLockVars>>

\* AuthHandler.Login dropping the account of a failed attempt from the
\* email index.
LoginHandlerLocksOut(email, password, d) ==
    /\ now + d[2] <= MaxTime
    /\ \E login \in {ServiceLogin(Repo, email, password)} :
           IF login.err # "nil"
           THEN /\ authResp' = [op |-> "Login", status |-> 401, err |-> login.err]
                /\ emails' = [e \in DOMAIN emails \ {email} |-> emails[e]]
                /\ UNCHANGED <<now, session, users, currentID>>
           ELSE /\ session' = Issue(login.user, now, now + d[1], now + d[2])
                /\ now' = now + d[2]
                /\ authResp' = [op |-> "Login", status |-> 200, err |-> "nil"]
                /\ UNCHANGED userVars
    /\ req' = NoReq
    /\ UNCHANGED <<cfgVars, taskVars, failLog, lockVars, envVars, taskLockVars>>

\* AuthHandler.Login.
LoginHandler(email, password, d) ==
    /\ now + d[2] <= MaxTime
    /\ \E login \in {ServiceLogin(Repo, email, password)} :
           IF login.err # "nil"
           THEN /\ authResp' = [op |-> "Login", status |-> 401, err |-> login.err]
                /\ UNCHANGED <<now, session>>
           ELSE /\ session' = Issue(login.user, now, now + d[1], now + d[2])
                /\ now' = now + d[2]
                /\ authResp' = [op |-> "Login", status |-> 200, err |-> "nil"]
    /\ req' = NoReq
    /\ UNCHANGED <<cfgVars, userVars, taskVars, failLog, lockVars, envVars, taskLockVars>>

\* InMemoryUserRepository.Delete.
RepoDelete(id) ==
    /\ LET d == UserDelete(Repo, id)
       IN  /\ d.err = "nil"
           /\ users' = d.repo.users
           /\ emails' = d.repo.emails
           /\ currentID' = d.repo.currentID
    /\ authResp' = NoAuthResp
    /\ req' = NoReq
    /\ UNCHANGED <<now, cfgVars, taskVars, session, failLog, lockVars, envVars, taskLockVars>>

\* InMemoryUserRepository.Update.
RepoUpdate(user) ==
    /\ LET u == UserUpdate(Repo, user)
       IN  /\ u.err = "nil"
           /\ u.repo # Repo
           /\ users' = u.repo.users
           /\ emails' = u.repo.emails
           /\ currentID' = u.repo.currentID
    /\ authResp' = NoAuthResp
    /\ req' = NoReq
    /\ UNCHANGED <<now, cfgVars, taskVars, session, failLog, lockVars, envVars, taskLockVars>>

\* A request to a route of the protected subrouter: JWTAuthMiddleware, then
\* the task handler when the middleware calls next.
Serve(header, route) ==
    /\ route.name = "CreateTask" => taskCurrentID <= MaxTaskID
    /\ \E m \in {JWTAuthMiddleware(header, jwtSecret, now)},
          h \in {TaskHandler(TaskStore, route)} :
           IF m.forwarded = 1
           THEN /\ tasks' = h.store.tasks
                /\ taskCurrentID' = h.store.currentID
                /\ req' = [header |-> header, validated |-> m.validated,
                           err |-> m.err, status |-> h.status, body |-> "",
                           ctxSet |-> m.ctxSet, ctxUserID |-> m.ctxUserID,
                           ctxUsername |-> m.ctxUsername, forwarded |-> 1,
                           op |-> route.name, storeOps |-> h.storeOps]
           ELSE /\ UNCHANGED taskVars
                /\ req' = [header |-> header, validated |-> m.validated,
                           err |-> m.err, status |-> m.status, body |-> m.body,
                           ctxSet |-> m.ctxSet, ctxUserID |-> m.ctxUserID,
                           ctxUsername |-> m.ctxUsername, forwarded |-> 0,
                           op |-> "none", storeOps |-> 0]
    /\ authResp' = NoAuthResp
    /\ UNCHANGED <<now, cfgVars, userVars, session, lockVars, envVars, taskLockVars>>

\* The users an Update call may carry: a stored user other than the seeded
\* one, renamed, with its email kept or changed.
Request(header, route) ==
    /\ Serve(header, route)
    /\ UNCHANGED failLog

\* The same request, its answer recorded when ValidateToken refused the token.
RequestLogged(header, route) ==
    /\ Serve(header, route)
    /\ failLog' = IF req'.validated = 1 /\ req'.err # "nil"
                  THEN failLog \cup {[kind |-> req'.err, status |-> req'.status,
                                      body |-> req'.body]}
                  ELSE failLog

UpdatedUsers ==
    UNION {{[users[id] EXCEPT !.Username = "al"],
            [users[id] EXCEPT !.Username = "al", !.Email = "b@x.com"]} :
              id \in DOMAIN users \ {1}}

\* The held token, and the same token under another header algorithm, with
\* its signature kept or dropped.
SessionTokens ==
    IF session.has
    THEN {session.token, [session.token EXCEPT !.hdr = "none", !.sig = NoSig]}
         \cup {[session.token EXCEPT !.hdr = a] : a \in OtherAlgs}
    ELSE {}

BearerHeaders == {Bearer(t) : t \in SessionTokens \cup {Garbage}}

(***************************************************************************)
(* The steps of a Register or Login request of goroutine p.                *)
(***************************************************************************)
\* AuthHandler.Register up to the call of AuthService.Register.
RegisterStart(p, username, email, password) ==
    /\ calls[p].pc \in {"idle", "done"}
    /\ calls' = [calls EXCEPT ![p] =
           IF ByteLen(password) < 8
           THEN Respond([NoCall EXCEPT !.op = "Register", !.username = username,
                                       !.email = email, !.password = password],
                        400, "password too short")
           ELSE [NoCall EXCEPT !.pc = "GetByEmail", !.op = "Register",
                               !.username = username, !.email = email,
                               !.password = password]]
    /\ authResp' = NoAuthResp
    /\ req' = NoReq
    /\ UNCHANGED <<now, cfgVars, userVars, taskVars, session, failLog, mu, envVars, taskLockVars>>

\* AuthHandler.Login up to the call of AuthService.Login.
LoginStart(p, email, password) ==
    /\ calls[p].pc \in {"idle", "done"}
    /\ calls' = [calls EXCEPT ![p] =
           [NoCall EXCEPT !.pc = "GetByEmail", !.op = "Login",
                          !.email = email, !.password = password]]
    /\ authResp' = NoAuthResp
    /\ req' = NoReq
    /\ UNCHANGED <<now, cfgVars, userVars, taskVars, session, failLog, mu, envVars, taskLockVars>>

\* GetByEmail: r.mu.RLock().
GetByEmailRLock(p) ==
    /\ calls[p].pc = "GetByEmail"
    /\ CanRLock(mu)
    /\ mu' = RLock(mu, p)
    /\ calls' = [calls EXCEPT ![p].pc = "GetByEmail.locked"]
    /\ authResp' = NoAuthResp
    /\ req' = NoReq
    /\ UNCHANGED <<now, cfgVars, userVars, taskVars, session, failLog, envVars, taskLockVars>>

\* GetByEmail returning the lookup with its deferred RUnlock, and the caller
\* (AuthService.Register or AuthService.Login) acting on the result.
GetByEmailReturn(p) ==
    /\ calls[p].pc = "GetByEmail.locked"
    /\ mu' = RUnlock(mu, p)
    /\ \E g \in {GetByEmail(Repo, calls[p].email)} :
           calls' = [calls EXCEPT ![p] =
               IF calls[p].op = "Register"
               THEN IF g.err = "nil"
                    THEN Respond(@, 409, "user with this email already exists")
                    ELSE [@ EXCEPT !.pc = "HashPassword"]
               ELSE IF g.err # "nil"
                    THEN Respond(@, 401, LoginError("not found"))
                    ELSE [@ EXCEPT !.pc = "VerifyPassword", !.user = g.user]]
    /\ authResp' = NoAuthResp
    /\ req' = NoReq
    /\ UNCHANGED <<now, cfgVars, userVars, taskVars, session, failLog, envVars, taskLockVars>>

\* AuthService.Register: HashPassword.
HashPasswordStep(p, salt) ==
    /\ calls[p].pc = "HashPassword"
    /\ \E h \in {HashPassword(calls[p].password, salt)} :
           calls' = [calls EXCEPT ![p] =
               IF h.err # "nil"
               THEN Respond(@, 400, "failed to hash password")
               ELSE [@ EXCEPT !.pc = "Create",
                              !.user = [ID |-> 0, Username |-> calls[p].username,
                                        Email |-> calls[p].email,
                                        PasswordHash |-> h.hash]]]
    /\ authResp' = NoAuthResp
    /\ req' = NoReq
    /\ UNCHANGED <<now, cfgVars, userVars, taskVars, session, failLog, mu, envVars, taskLockVars>>

\* Create: r.mu.Lock().
CreateLock(p) ==
    /\ calls[p].pc = "Create"
    /\ currentID <= MaxRepoID
    /\ CanLock(mu)
    /\ mu' = Lock(mu, p)
    /\ calls' = [calls EXCEPT ![p].pc = "Create.locked"]
    /\ authResp' = NoAuthResp
    /\ req' = NoReq
    /\ UNCHANGED <<now, cfgVars, userVars, taskVars, session, failLog, envVars, taskLockVars>>

\* Create under the lock: the uniqueness checks, and on a failed one the
\* deferred Unlock and the error response of the handler.
CreateChecked(p) ==
    /\ calls[p].pc = "Create.locked"
    /\ \E e \in {CreateCheck(Repo, calls[p].user)} :
           IF e # "nil"
           THEN /\ mu' = Unlock(mu, p)
                /\ calls' = [calls EXCEPT ![p] =
                        Respond([@ EXCEPT !.repoErr = e], 400, "failed to create user")]
           ELSE /\ calls' = [calls EXCEPT ![p].pc = "Create.insert"]
                /\ UNCHANGED mu
    /\ authResp' = NoAuthResp
    /\ req' = NoReq
    /\ UNCHANGED <<now, cfgVars, userVars, taskVars, session, failLog, envVars, taskLockVars>>

\* Create under the lock: the insertion, the deferred Unlock, and the rest of
\* the handler: GenerateToken and the 201 response.
CreateReturn(p) ==
    /\ calls[p].pc = "Create.insert"
    /\ mu' = Unlock(mu, p)
    /\ \E c \in {CreateInsert(Repo, calls[p].user)} :
           /\ users' = c.repo.users
           /\ emails' = c.repo.emails
           /\ currentID' = c.repo.currentID
           /\ session' = Issue(c.user, now, now, now)
           /\ calls' = [calls EXCEPT ![p] = Respond([@ EXCEPT !.user = c.user], 201, "nil")]
    /\ authResp' = NoAuthResp
    /\ req' = NoReq
    /\ UNCHANGED <<now, cfgVars, taskVars, failLog, envVars, taskLockVars>>

\* AuthService.Login: VerifyPassword, and the rest of the handler.
VerifyPasswordStep(p) ==
    /\ calls[p].pc = "VerifyPassword"
    /\ IF ~VerifyPassword(calls[p].user.PasswordHash, calls[p].password)
       THEN /\ calls' = [calls EXCEPT ![p] =
                    Respond([@ EXCEPT !.user = NoUser], 401, LoginError("wrong password"))]
            /\ UNCHANGED session
       ELSE /\ session' = Issue(calls[p].user, now, now, now)
            /\ calls' = [calls EXCEPT ![p] = Respond(@, 200, "nil")]
    /\ authResp' = NoAuthResp
    /\ req' = NoReq
    /\ UNCHANGED <<now, cfgVars, userVars, taskVars, failLog, mu, envVars, taskLockVars>>

\* Update and Delete called by another goroutine: each takes the write lock
\* for the whole call.
LockedDelete(id) ==
    /\ CanLock(mu)
    /\ RepoDelete(id)

LockedUpdate(user) ==
    /\ CanLock(mu)
    /\ RepoUpdate(user)

\* The token core: clock, configuration, user repository, token issuance
\* and the gate in front of the read-only task routes.
Next ==
    \/ Tick
    \/ \E s \in Secrets : Restart(s)
    \/ \E u \in Usernames, e \in Emails, p \in Passwords, s \in Salts, d \in ClockReads :
          RegisterHandler(u, e, p, s, d)
    \/ \E e \in Emails, p \in Passwords, d \in ClockReads : LoginHandler(e, p, d)
    \/ \E id \in DOMAIN users : RepoDelete(id)
    \/ \E u \in UpdatedUsers : RepoUpdate(u)
    \/ \E h \in BearerHeaders, r \in ReadRoutes : Request(h, r)

Spec == Init /\ [][Next]_vars

\* The gate: every shape of Authorization header in front of every task
\* route, under a configuration fixed at start.
InitGate ==
    /\ Init
    /\ jwtExpiry = TicksPerSec

NextGate ==
    \/ Tick
    \/ \E u \in Usernames, e \in Emails, p \in Passwords, s \in Salts :
          RegisterHandler(u, e, p, s, <<0, 0>>)
    \/ \E e \in Emails, p \in Passwords : LoginHandler(e, p, <<0, 0>>)
    \/ \E h \in Headers, r \in Routes : Request(h, r)

SpecGate == InitGate /\ [][NextGate]_vars

\* The answers of the gate to refused tokens, recorded over a run.
NextLeak ==
    \/ Tick
    \/ \E u \in Usernames, e \in Emails, p \in Passwords, s \in Salts :
          RegisterHandler(u, e, p, s, <<0, 0>>)
    \/ \E e \in Emails, p \in Passwords : LoginHandler(e, p, <<0, 0>>)
    \/ \E h \in {Bearer(t) : t \in ClientTokens}, r \in ReadRoutes : RequestLogged(h, r)

SpecLeak == InitGate /\ [][NextLeak]_vars

(***************************************************************************)
(* Concurrent Register and Login requests on one repository, with Update   *)
(* and Delete calls between their steps.                                   *)
(***************************************************************************)
ConcurrentUsernames == {"alice", "bob"}

\* The users an Update call may carry: a stored user with its email kept or
\* changed, to a free one or to one that is taken.
UpdateRequests ==
    UNION {{[users[id] EXCEPT !.Email = e] : e \in Emails \cup {"b@x.com"}} :
              id \in DOMAIN users}

InitLock ==
    /\ Init
    /\ jwtSecret = DefaultSecret
    /\ jwtExpiry = TicksPerSec

NextLock ==
    \/ \E p \in Procs, u \in ConcurrentUsernames, e \in Emails, pw \in Passwords :
          RegisterStart(p, u, e, pw)
    \/ \E p \in Procs, e \in Emails, pw \in Passwords : LoginStart(p, e, pw)
    \/ \E p \in Procs : GetByEmailRLock(p)
    \/ \E p \in Procs : GetByEmailReturn(p)
    \/ \E p \in Procs, s \in Salts : HashPasswordStep(p, s)
    \/ \E p \in Procs : CreateLock(p)
    \/ \E p \in Procs : CreateChecked(p)
    \/ \E p \in Procs : CreateReturn(p)
    \/ \E p \in Procs : VerifyPasswordStep(p)
    \/ \E id \in DOMAIN users \ {1} : LockedDelete(id)
    \/ \E u \in UpdateRequests : u.ID # 1 /\ LockedUpdate(u)

SpecLock == InitLock /\ [][NextLock]_vars

(***************************************************************************)
(* A race of Register requests: every goroutine serves one request, and    *)
(* nothing else touches the repository.                                    *)
(***************************************************************************)
RacePasswords == {LongEnough, Rep("q", 8)}

NextRace ==
    \/ \E p \in Procs, u \in ConcurrentUsernames, e \in Emails, pw \in RacePasswords :
          calls[p].pc = "idle" /\ RegisterStart(p, u, e, pw)
    \/ \E p \in Procs : GetByEmailRLock(p)
    \/ \E p \in Procs : GetByEmailReturn(p)
    \/ \E p \in Procs, s \in Salts : HashPasswordStep(p, s)
    \/ \E p \in Procs : CreateLock(p)
    \/ \E p \in Procs : CreateChecked(p)
    \/ \E p \in Procs : CreateReturn(p)

SpecRace == InitLock /\ [][NextRace]_vars

(***************************************************************************)
(* The password hasher at work: one goroutine registers and logs in with   *)
(* the passwords of HasherPasswords; a stored hash may be overwritten with *)
(* a string that is no bcrypt hash.                                        *)
(***************************************************************************)
CorruptedUsers == {[users[id] EXCEPT !.PasswordHash = NoHash] : id \in DOMAIN users \ {1}}

NextHasher ==
    \/ \E pw \in HasherPasswords : RegisterStart(1, "alice", "a@x.com", pw)
    \/ \E pw \in HasherPasswords : LoginStart(1, "a@x.com", pw)
    \/ \E p \in Procs : GetByEmailRLock(p)
    \/ \E p \in Procs : GetByEmailReturn(p)
    \/ \E p \in Procs, s \in Salts : HashPasswordStep(p, s)
    \/ \E p \in Procs : CreateLock(p)
    \/ \E p \in Procs : CreateChecked(p)
    \/ \E p \in Procs : CreateReturn(p)
    \/ \E p \in Procs : VerifyPasswordStep(p)
    \/ \E id \in DOMAIN users \ {1} : LockedDelete(id)
    \/ \E u \in CorruptedUsers : LockedUpdate(u)

SpecHasher == InitLock /\ [][NextHasher]_vars

(***************************************************************************)
(* The repositories under any sequence of Create, Update and Delete calls. *)
(* authResp holds the error of the last Create of a user.                  *)
(***************************************************************************)
CreateRequests ==
    {[ID |-> 0, Username |-> u, Email |-> e, PasswordHash |-> HashPassword(LongEnough, s).hash] :
        u \in ConcurrentUsernames, e \in Emails \cup {"b@x.com"}, s \in Salts}

RepoRoutes ==
    {Route("CreateTask", 0, TRUE, Title(c, FALSE, FALSE, 1), FALSE, FALSE) : c \in {"x", "y"}}
    \cup {Route("CreateTask", 0, TRUE, Title("", TRUE, FALSE, 2), FALSE, FALSE),
          Route("UpdateTask", 2, FALSE, EmptyTitle, TRUE, FALSE)}
    \cup {Route("DeleteTask", id, FALSE, EmptyTitle, FALSE, FALSE) : id \in 0..MaxNewTaskID}

\* InMemoryUserRepository.Create.
RepoCreate(user) ==
    /\ currentID <= MaxRepoID
    /\ \E c \in {UserCreate(Repo, user)} :
           /\ users' = c.repo.users
           /\ emails' = c.repo.emails
           /\ currentID' = c.repo.currentID
           /\ authResp' = [op |-> "Create", status |-> 0, err |-> c.err]
    /\ req' = NoReq
    /\ UNCHANGED <<now, cfgVars, taskVars, session, failLog, lockVars, envVars, taskLockVars>>

\* A task handler run behind the gate.
TaskCall(route) ==
    /\ route.name = "CreateTask" => taskCurrentID <= MaxNewTaskID
    /\ \E h \in {TaskHandler(TaskStore, route)} :
           /\ tasks' = h.store.tasks
           /\ taskCurrentID' = h.store.currentID
           /\ req' = [NoReq EXCEPT !.status = h.status, !.forwarded = 1,
                                   !.op = route.name, !.storeOps = h.storeOps]
    /\ authResp' = NoAuthResp
    /\ UNCHANGED <<now, cfgVars, userVars, session, failLog, lockVars, envVars, taskLockVars>>

NextRepo ==
    \/ \E u \in CreateRequests : RepoCreate(u)
    \/ \E u \in UpdateRequests : RepoUpdate(u)
    \/ \E id \in DOMAIN users : RepoDelete(id)
    \/ \E r \in RepoRoutes : TaskCall(r)

SpecRepo == InitLock /\ [][NextRepo]_vars

(***************************************************************************)
(* The process environment and config.Load: main loads the configuration   *)
(* and builds the service from it, or the process dies in the panic.       *)
(***************************************************************************)
Setenv(k, v) ==
    /\ environ' = [environ EXCEPT ![k] = Set(v)]
    /\ authResp' = NoAuthResp
    /\ req' = NoReq
    /\ UNCHANGED <<now, cfgVars, userVars, taskVars, session, failLog, lockVars, loaded, taskLockVars>>

Unsetenv(k) ==
    /\ environ[k].set
    /\ environ' = [environ EXCEPT ![k] = Unset]
    /\ authResp' = NoAuthResp
    /\ req' = NoReq
    /\ UNCHANGED <<now, cfgVars, userVars, taskVars, session, failLog, lockVars, loaded, taskLockVars>>

LoadConfig ==
    /\ \E l \in {Load(environ)} :
           /\ loaded' = l
           /\ IF l.panic
              THEN UNCHANGED cfgVars
              ELSE /\ jwtSecret' = l.cfg.JWTSecret
                   /\ jwtExpiry' = l.cfg.JWTExpiry
    /\ authResp' = NoAuthResp
    /\ req' = NoReq
    /\ UNCHANGED <<now, userVars, taskVars, session, failLog, lockVars, environ, taskLockVars>>

NextConfig ==
    \/ \E k \in EnvKeys : \E v \in EnvValues[k] : Setenv(k, v)
    \/ \E k \in EnvKeys : Unsetenv(k)
    \/ LoadConfig

SpecConfig == InitLock /\ [][NextConfig]_vars

(***************************************************************************)
(* The user repository called directly, with Update requests that change   *)
(* the username.                                                           *)
(***************************************************************************)
\* The users an Update call may carry: a stored user under any username, a
\* free one or one that is taken, with its email kept or changed.
RenameRequests ==
    UNION {{[users[id] EXCEPT !.Username = n, !.Email = e] :
               n \in ConcurrentUsernames \cup {"admin"},
               e \in {users[id].Email, "b@x.com"}} :
              id \in DOMAIN users}

NextNames ==
    \/ \E u \in CreateRequests : RepoCreate(u)
    \/ \E u \in RenameRequests : RepoUpdate(u)
    \/ \E id \in DOMAIN users : RepoDelete(id)

SpecNames == InitLock /\ [][NextNames]_vars

(***************************************************************************)
(* Concurrent task requests on one repository: every goroutine serves one  *)
(* request of the protected subrouter, one repository call per step.       *)
(***************************************************************************)
\* TaskHandler.CreateTask and TaskService.CreateTask up to isDuplicateTitle.
CreateTaskStart(p, title) ==
    /\ taskCalls[p].pc = "idle"
    /\ \E c \in {[NoTaskCall EXCEPT !.op = "CreateTask", !.hasTitle = TRUE,
                                    !.title = title]} :
       \E e \in {validateCreateRequest(title)} :
           taskCalls' = [taskCalls EXCEPT ![p] =
               IF e # "nil" THEN TaskRespond(c, e)
               ELSE [c EXCEPT !.pc = "GetAll",
                              !.task = [NoTask EXCEPT !.Title = TrimSpace(title)]]]
    /\ authResp' = NoAuthResp
    /\ req' = NoReq
    /\ UNCHANGED <<now, cfgVars, userVars, session, failLog, lockVars, envVars, taskVars, taskMu>>

\* TaskHandler.UpdateTask and TaskService.UpdateTask up to GetByID.
UpdateTaskStart(p, id, hasTitle, title, hasCompleted, completed) ==
    /\ taskCalls[p].pc = "idle"
    /\ \E c \in {[NoTaskCall EXCEPT !.op = "UpdateTask", !.id = id,
                                    !.hasTitle = hasTitle, !.title = title,
                                    !.hasCompleted = hasCompleted,
                                    !.completed = completed]} :
       \E e \in {validateUpdateRequest(hasTitle, title)} :
           taskCalls' = [taskCalls EXCEPT ![p] =
               IF id <= 0 THEN TaskRespond(c, "invalid task id")
               ELSE IF e # "nil" THEN TaskRespond(c, e)
               ELSE [c EXCEPT !.pc = "GetByID"]]
    /\ authResp' = NoAuthResp
    /\ req' = NoReq
    /\ UNCHANGED <<now, cfgVars, userVars, session, failLog, lockVars, envVars, taskVars, taskMu>>

\* TaskHandler.DeleteTask and TaskService.DeleteTask up to GetByID.
DeleteTaskStart(p, id) ==
    /\ taskCalls[p].pc = "idle"
    /\ \E c \in {[NoTaskCall EXCEPT !.op = "DeleteTask", !.id = id]} :
           taskCalls' = [taskCalls EXCEPT ![p] =
               IF id <= 0 THEN TaskRespond(c, "invalid task id")
               ELSE [c EXCEPT !.pc = "GetByID"]]
    /\ authResp' = NoAuthResp
    /\ req' = NoReq
    /\ UNCHANGED <<now, cfgVars, userVars, session, failLog, lockVars, envVars, taskVars, taskMu>>

\* GetAll and GetByID: r.mu.RLock().
TaskRLock(p) ==
    /\ taskCalls[p].pc \in {"GetAll", "GetByID"}
    /\ CanRLock(taskMu)
    /\ taskMu' = RLock(taskMu, p)
    /\ taskCalls' = [taskCalls EXCEPT ![p].pc =
           IF @ = "GetAll" THEN "GetAll.locked" ELSE "GetByID.locked"]
    /\ authResp' = NoAuthResp
    /\ req' = NoReq
    /\ UNCHANGED <<now, cfgVars, userVars, session, failLog, lockVars, envVars, taskVars>>

\* Create, Update and Delete: r.mu.Lock().
TaskLock(p) ==
    /\ taskCalls[p].pc \in {"Create", "Update", "Delete"}
    /\ CanLock(taskMu)
    /\ taskMu' = Lock(taskMu, p)
    /\ taskCalls' = [taskCalls EXCEPT ![p].pc =
           CASE @ = "Create" -> "Create.locked"
             [] @ = "Update" -> "Update.locked"
             [] @ = "Delete" -> "Delete.locked"]
    /\ authResp' = NoAuthResp
    /\ req' = NoReq
    /\ UNCHANGED <<now, cfgVars, userVars, session, failLog, lockVars, envVars, taskVars>>

\* GetAll returning the tasks with its deferred RUnlock, and isDuplicateTitle
\* and CreateTask acting on them.
GetAllReturn(p) ==
    /\ taskCalls[p].pc = "GetAll.locked"
    /\ taskMu' = RUnlock(taskMu, p)
    /\ taskCalls' = [taskCalls EXCEPT ![p] =
           IF isDuplicateTitle(TaskStore, @.task.Title)
           THEN TaskRespond(@, "task with title already exists")
           ELSE [@ EXCEPT !.pc = "Create"]]
    /\ authResp' = NoAuthResp
    /\ req' = NoReq
    /\ UNCHANGED <<now, cfgVars, userVars, session, failLog, lockVars, envVars, taskVars>>

\* GetByID returning a copy of the task with its deferred RUnlock, and
\* UpdateTask or DeleteTask acting on it.
GetByIDReturn(p) ==
    /\ taskCalls[p].pc = "GetByID.locked"
    /\ taskMu' = RUnlock(taskMu, p)
    /\ \E g \in {TaskRepoGetByID(TaskStore, taskCalls[p].id)} :
           taskCalls' = [taskCalls EXCEPT ![p] =
               IF g.err # "nil"
               THEN TaskRespond(@, "task not found: task with id not found")
               ELSE IF @.op = "DeleteTask" THEN [@ EXCEPT !.pc = "Delete"]
               ELSE [@ EXCEPT !.pc = "Update",
                              !.task = [g.task EXCEPT
                                  !.Title = IF taskCalls[p].hasTitle
                                            THEN TrimSpace(taskCalls[p].title) ELSE @,
                                  !.Completed = IF taskCalls[p].hasCompleted
                                                THEN taskCalls[p].completed ELSE @]]]
    /\ authResp' = NoAuthResp
    /\ req' = NoReq
    /\ UNCHANGED <<now, cfgVars, userVars, session, failLog, lockVars, envVars, taskVars>>

\* Create under the lock with its deferred Unlock, and the 201 response.
TaskCreateReturn(p) ==
    /\ taskCalls[p].pc = "Create.locked"
    /\ taskMu' = Unlock(taskMu, p)
    /\ \E c \in {TaskRepoCreate(TaskStore, taskCalls[p].task)} :
           /\ tasks' = c.store.tasks
           /\ taskCurrentID' = c.store.currentID
           /\ taskCalls' = [taskCalls EXCEPT ![p] =
                  IF c.err # "nil" THEN TaskRespond(@, "failed to create task")
                  ELSE TaskRespond([@ EXCEPT !.task = c.task], "nil")]
    /\ authResp' = NoAuthResp
    /\ req' = NoReq
    /\ UNCHANGED <<now, cfgVars, userVars, session, failLog, lockVars, envVars>>

\* Update under the lock with its deferred Unlock, and the response.
TaskUpdateReturn(p) ==
    /\ taskCalls[p].pc = "Update.locked"
    /\ taskMu' = Unlock(taskMu, p)
    /\ \E u \in {TaskRepoUpdate(TaskStore, taskCalls[p].id, taskCalls[p].task)} :
           /\ tasks' = u.store.tasks
           /\ taskCurrentID' = u.store.currentID
           /\ taskCalls' = [taskCalls EXCEPT ![p] =
                  IF u.err # "nil"
                  THEN TaskRespond(@, "failed to update task: task with id not found")
                  ELSE TaskRespond(@, "nil")]
    /\ authResp' = NoAuthResp
    /\ req' = NoReq
    /\ UNCHANGED <<now, cfgVars, userVars, session, failLog, lockVars, envVars>>

\* Delete under the lock with its deferred Unlock, and the response.
TaskDeleteReturn(p) ==
    /\ taskCalls[p].pc = "Delete.locked"
    /\ taskMu' = Unlock(taskMu, p)
    /\ \E d \in {TaskRepoDelete(TaskStore, taskCalls[p].id)} :
           /\ tasks' = d.store.tasks
           /\ taskCurrentID' = d.store.currentID
           /\ taskCalls' = [taskCalls EXCEPT ![p] =
                  IF d.err # "nil"
                  THEN TaskRespond(@, "failed to delete task: task with id not found")
                  ELSE TaskRespond(@, "nil")]
    /\ authResp' = NoAuthResp
    /\ req' = NoReq
    /\ UNCHANGED <<now, cfgVars, userVars, session, failLog, lockVars, envVars>>

\* The titles of the racing CreateTask requests: two spellings of one title
\* and a blank one.
RaceTitles ==
    {Title("buy milk", FALSE, FALSE, 8), Title("buy milk", TRUE, TRUE, 10),
     Title("", TRUE, FALSE, 2)}

Renamed == Title("renamed", TRUE, FALSE, 9)

\* The bodies of the racing UpdateTask requests: only a title, only a
\* completed flag, and a blank title.
RaceUpdates ==
    {[hasTitle |-> TRUE, title |-> Renamed, hasCompleted |-> FALSE, completed |-> FALSE],
     [hasTitle |-> FALSE, title |-> EmptyTitle, hasCompleted |-> TRUE, completed |-> TRUE],
     [hasTitle |-> TRUE, title |-> Title("", TRUE, FALSE, 2), hasCompleted |-> FALSE,
      completed |-> FALSE]}

\* The ids of the racing requests: none, a seeded task, the first new task.
RaceIDs == {0, 1, NewInMemoryTaskRepository.currentID}

NextTasks ==
    \/ \E p \in TaskProcs, t \in RaceTitles : CreateTaskStart(p, t)
    \/ \E p \in TaskProcs, id \in RaceIDs, u \in RaceUpdates :
          UpdateTaskStart(p, id, u.hasTitle, u.title, u.hasCompleted, u.completed)
    \/ \E p \in TaskProcs, id \in RaceIDs : DeleteTaskStart(p, id)
    \/ \E p \in TaskProcs : TaskRLock(p)
    \/ \E p \in TaskProcs : TaskLock(p)
    \/ \E p \in TaskProcs : GetAllReturn(p)
    \/ \E p \in TaskProcs : GetByIDReturn(p)
    \/ \E p \in TaskProcs : TaskCreateReturn(p)
    \/ \E p \in TaskProcs : TaskUpdateReturn(p)
    \/ \E p \in TaskProcs : TaskDeleteReturn(p)

SpecTasks == InitLock /\ [][NextTasks]_vars

(***************************************************************************)
(* Properties.                                                             *)
(***************************************************************************)

\* The header is the word Bearer, one space, and a rest without any space.
IsBearerShape(h) ==
    /\ Len(h) >= 2
    /\ h[1] = Word("Bearer")
    /\ h[2] = SP
    /\ \A i \in 3..Len(h) : h[i] # SP

\* The token string a header of that shape carries.
PresentedToken(h) ==
    IF Len(h) = 3 /\ h[3].k = "tok" THEN h[3].tok
    ELSE IF Len(h) = 2 THEN EmptyToken
    ELSE Garbage

\* The request just answered reached the task handler, or got an identity
\* attached, or touched the task store.
ReachedHandler(r) ==
    r.forwarded > 0 \/ r.ctxSet \/ r.op # "none" \/ r.storeOps > 0

\* C1: on a protected route the task handler is invoked, an identity is put
\* in the request context and the task store is read or written only for a
\* request whose own token ValidateToken accepts under the configured secret
\* at the time of the request; a step that changes the task store is the step
\* of such a request.
C1_OnlyAcceptedTokensReachTasks ==
    /\ [](ReachedHandler(req) =>
            /\ IsBearerShape(req.header)
            /\ req.validated = 1
            /\ req.err = "nil"
            /\ ValidateToken(PresentedToken(req.header), jwtSecret, now) = "nil"
            /\ req.ctxUserID = PresentedToken(req.header).claims.user_id
            /\ req.ctxUsername = PresentedToken(req.header).claims.username)
    /\ [][taskVars' # taskVars =>
            /\ req'.forwarded = 1
            /\ ValidateToken(PresentedToken(req'.header), jwtSecret, now) = "nil"]_vars

\* C1 witness: a request with an accepted token created a task.
C1_Witness ==
    /\ req.forwarded = 1
    /\ req.op = "CreateTask"
    /\ req.status = 201
    /\ req.storeOps = 2
    /\ 3 \in DOMAIN tasks
    /\ req.ctxUserID = 2

C3_RefusalsIndistinguishable ==
    /\ \A a, b \in failLog : a.status = b.status /\ a.body = b.body
    /\ \A a \in failLog : a.status = 401 /\ a.body = "Invalid or expired token"

\* C3 witness: tokens were refused as malformed, for their algorithm, for
\* their signature, as expired and as not yet valid.
C3_Witness ==
    {a.kind : a \in failLog} =
        {"malformed", "unverifiable", "signature_invalid", "expired", "not_valid_yet"}
\* The request just answered carried the held token as "Bearer <token>".
PresentedSession ==
    /\ session.has
    /\ req.status # 0
    /\ req.header = Bearer(session.token)

\* The expiry instant embedded in the held token: T + ttl cut to whole seconds.
SessionExpiry == ((session.T + session.ttl) \div TicksPerSec) * TicksPerSec

\* The request was forwarded once with the identity of the token's user.
ForwardedAsSessionUser ==
    /\ req.forwarded = 1
    /\ req.validated = 1
    /\ req.ctxSet
    /\ req.ctxUserID = session.user.ID
    /\ req.ctxUsername = session.user.Username
    /\ req.status # 401

C6_RefusedAfterTPlusD ==
    session.has =>
        /\ \A t \in 0..(MaxTime + TicksPerSec) :
              t > session.T + session.ttl =>
                  ValidateToken(session.token, session.secret, t) = "expired"
        /\ (PresentedSession /\ now > session.T + session.ttl) =>
              /\ req.validated = 1
              /\ req.err # "nil"
              /\ req.status = 401
              /\ req.forwarded = 0

\* C6 witness: a token issued with ttl 0 was refused as expired one second
\* after its issuance.
C6_Witness ==
    /\ PresentedSession
    /\ session.ttl = 0
    /\ now = session.T + TicksPerSec
    /\ req.err = "expired"
    /\ req.status = 401

\* The answer of ValidateToken to the held token under its issuer's secret.
SessionStatus(t) == ValidateToken(session.token, session.secret, t)

\* C7: while the client holds the same token, the clock does not go back, its
\* status under a fixed secret is valid or expired, and once expired it
\* stays expired.
C7_LifetimeMonotonic ==
    [][(session.has /\ session' = session) =>
          /\ now' >= now
          /\ SessionStatus(now) \in {"nil", "expired"}
          /\ SessionStatus(now') \in {"nil", "expired"}
          /\ SessionStatus(now) = "expired" => SessionStatus(now') = "expired"]_vars

\* C7 witness: a token that was valid when issued is expired, and time goes on.
C7_Witness ==
    /\ session.has
    /\ SessionStatus(session.at) = "nil"
    /\ SessionStatus(now) = "expired"
    /\ now > SessionExpiry
    /\ now < MaxTime

\* C8: a token issued under one secret is refused under every other secret
\* at every check time, and the gate answers it 401 and attaches no identity.
C8_OtherSecretRefused ==
    session.has =>
        /\ \A s \in (Secrets \cup {"", "s2"}) \ {session.secret}, t \in 0..MaxTime :
              ValidateToken(session.token, s, t) # "nil"
        /\ (PresentedSession /\ jwtSecret # session.secret) =>
              /\ req.status = 401
              /\ req.forwarded = 0
              /\ ~req.ctxSet
              /\ req.ctxUserID = 0
              /\ req.ctxUsername = ""

\* C8 witness: a token not yet expired was refused for its signature by the
\* service started again with another secret.
C8_Witness ==
    /\ PresentedSession
    /\ jwtSecret # session.secret
    /\ now < SessionExpiry
    /\ req.err = "signature_invalid"
    /\ req.status = 401

\* A token with its header naming another algorithm, under every signature
\* the client may attach: none, the old one, or a tag under the configured
\* secret made for HS256 or for the named algorithm.
AlgVariants(tok) ==
    {[tok EXCEPT !.hdr = a, !.sig = g] :
        a \in OtherAlgs \cup {"XX"},
        g \in {NoSig, tok.sig} \cup
              {Hmac(m, jwtSecret, h, tok.claims) :
                  m \in {"HS256", "none", "RS256"}, h \in {"HS256", "none", "RS256"}}}

\* C9: a token whose header names no HMAC method is refused whatever its
\* claims and signature; a token the gate forwards names an HMAC method and
\* carries that method's tag under the configured secret.
C9_NonHmacAlgRefused ==
    /\ \A tok \in AlgVariants(session.token)
                  \cup AlgVariants(GenerateToken(AdminUser, jwtSecret, TicksPerSec,
                                                 now, now, now)),
          t \in 0..MaxTime :
          ValidateToken(tok, jwtSecret, t) # "nil"
    /\ (req.status # 0 /\ IsBearerShape(req.header)
            /\ PresentedToken(req.header).hdr \notin HmacAlgs) =>
          /\ req.status = 401
          /\ req.forwarded = 0
    /\ req.forwarded = 1 =>
          LET tok == PresentedToken(req.header)
          IN  /\ tok.hdr \in HmacAlgs
              /\ tok.sig = Hmac(tok.hdr, jwtSecret, tok.hdr, tok.claims)

\* C9 witness: the held token, not expired, with its header changed to
\* "none" and its signature dropped, was answered 401.
C9_Witness ==
    /\ session.has
    /\ session.secret = jwtSecret
    /\ now < SessionExpiry
    /\ req.header = Bearer([session.token EXCEPT !.hdr = "none", !.sig = NoSig])
    /\ req.err = "unverifiable"
    /\ req.status = 401
    /\ req.forwarded = 0

\* C10: the held token, presented before its expiry to a service configured
\* with its issuer's secret, is forwarded with the identity it carries,
\* whatever the user repository holds; and a request to the gate leaves the
\* user repository as it was.
C10_StatelessValidity ==
    /\ []((PresentedSession /\ session.secret = jwtSecret /\ now < SessionExpiry)
            => ForwardedAsSessionUser)
    /\ [][req'.status # 0 => UNCHANGED userVars]_vars

\* C10 witness: the token of a user since deleted from the repository was
\* accepted and the request forwarded as that user.
C10_Witness ==
    /\ PresentedSession
    /\ session.user.ID \notin DOMAIN users
    /\ session.user.Email \notin DOMAIN emails
    /\ currentID > session.user.ID
    /\ req.forwarded = 1
    /\ req.ctxUserID = session.user.ID
\* C11: in every reachable state of the user repository, under concurrent
\* Register requests interleaved with Update and Delete calls, no two stored
\* users have the same email.
C11_UniqueEmails ==
    \A i \in DOMAIN users : \A j \in DOMAIN users :
        i # j => users[i].Email # users[j].Email

\* A Register lost the race for its email at Create, an Update has moved a
\* user to another email, and three users are stored.
C11_Witness ==
    /\ \E p \in Procs : calls[p].repoErr = "email already exists"
    /\ \E id \in DOMAIN users : users[id].Email = "b@x.com"
    /\ Cardinality(DOMAIN users) = 3

\* Goroutine p takes the step.
StepOf(p) == calls'[p] # calls[p]

DuplicateEmail == "user with this email already exists"

\* C12: a Register whose email is stored when the call looks it up (an
\* earlier Register of it succeeded and the user is still there) fails with
\* the DuplicateEmail error, the store then holds exactly one entry for that
\* email, and no step of a Register call other than a successful insertion
\* changes users, emails or the next id.
C12_DuplicateRegisterRejected ==
    [][\A p \in Procs :
          /\ (/\ StepOf(p)
              /\ calls[p].pc = "GetByEmail.locked"
              /\ calls[p].op = "Register"
              /\ calls[p].email \in DOMAIN emails)
             => /\ calls'[p].pc = "done"
                /\ calls'[p].status = 409
                /\ calls'[p].err = DuplicateEmail
                /\ Cardinality({id \in DOMAIN users' :
                                   users'[id].Email = calls[p].email}) = 1
          /\ (/\ StepOf(p)
              /\ calls'[p].op = "Register"
              /\ calls'[p].status # 201)
             => /\ users' = users
                /\ emails' = emails
                /\ currentID' = currentID]_vars

\* One request registered a@x.com, its user is still stored, and a later
\* request for the same email was answered 409.
C12_Witness ==
    \E p \in Procs : \E q \in Procs \ {p} :
        /\ calls[q].status = 201
        /\ calls[q].user.Email = "a@x.com"
        /\ calls[q].user.ID \in DOMAIN users
        /\ users[calls[q].user.ID] = calls[q].user
        /\ calls[p].op = "Register"
        /\ calls[p].status = 409
        /\ calls[p].email = "a@x.com"

\* C13: every Register call that failed because its email was already in
\* the store, at the pre-check or at Create, returned the DuplicateEmail error
\* and was answered 409.
C13_EmailConflictIsDuplicateEmail ==
    \A p \in Procs :
        (/\ calls[p].pc = "done"
         /\ calls[p].op = "Register"
         /\ (calls[p].err = DuplicateEmail \/ calls[p].repoErr = "email already exists"))
        => /\ calls[p].err = DuplicateEmail
           /\ calls[p].status = 409

\* Goroutines p and q have both finished a Register request for the same
\* email, which the store did not hold at the start, under different usernames.
RacedFor(p, q) ==
    /\ p # q
    /\ calls[p].pc = "done" /\ calls[p].op = "Register"
    /\ calls[q].pc = "done" /\ calls[q].op = "Register"
    /\ calls[p].email = calls[q].email
    /\ calls[p].email \notin DOMAIN NewInMemoryUserRepository.emails
    /\ calls[p].username # calls[q].username

\* C14: of two concurrent Register requests with the same new email and
\* different usernames, under every interleaving of their steps, exactly one
\* succeeds and the other fails, and the store ends with exactly one user for
\* the email: the one the winner created, with the hash the winner computed.
C14_ExactlyOneRegisterWins ==
    \A p \in Procs : \A q \in Procs :
        RacedFor(p, q)
        => /\ calls[p].status = 201 \/ calls[q].status = 201
           /\ calls[p].status = 201
              => /\ calls[q].status \in {400, 409}
                 /\ \A id \in DOMAIN users :
                        users[id].Email = calls[p].email => users[id] = calls[p].user
                 /\ calls[p].user.ID \in DOMAIN users
                 /\ calls[p].user.Username = calls[p].username
                 /\ calls[p].user.Email = calls[p].email

\* Both requests passed the pre-check; the loser failed at Create, and had
\* computed another hash than the winner's.
C14_Witness ==
    \E p \in Procs : \E q \in Procs :
        /\ RacedFor(p, q)
        /\ calls[p].status = 201
        /\ calls[q].repoErr = "email already exists"
        /\ calls[q].user.PasswordHash.wf
        /\ calls[q].user.PasswordHash # calls[p].user.PasswordHash

\* C15: a Login that fails returns the error "invalid credentials" and no
\* user, and is answered 401, whether the email is unknown or the password
\* is wrong: nothing in the outcome depends on the account existing.
C15_LoginFailuresIdentical ==
    \A p \in Procs :
        (calls[p].pc = "done" /\ calls[p].op = "Login" /\ calls[p].status # 200)
        => /\ calls[p].status = 401
           /\ calls[p].err = "invalid credentials"
           /\ calls[p].user = NoUser
           /\ calls[p].repoErr = "nil"
           /\ calls[p].password = <<>>

\* One Login failed for the seeded account, which none of the passwords
\* tried opens, another for an email that was never registered, and the two
\* outcomes are the same.
C15_Witness ==
    \E p \in Procs : \E q \in Procs :
        /\ calls[p].pc = "done" /\ calls[p].op = "Login"
        /\ calls[p].email = AdminUser.Email
        /\ calls[q].pc = "done" /\ calls[q].op = "Login"
        /\ calls[q].email = "a@x.com"
        /\ currentID = NewInMemoryUserRepository.currentID
        /\ [calls[p] EXCEPT !.email = ""] = [calls[q] EXCEPT !.email = ""]
        /\ calls[p].status = 401

\* C16: a Login request, whatever its outcome, leaves users, emails and the
\* next id as they were, and the store changes only in the step of a
\* Register request that succeeded.
C16_LoginReadOnly ==
    [][/\ authResp'.op = "Login"
          => (users' = users /\ emails' = emails /\ currentID' = currentID)
       /\ (users' # users \/ emails' # emails \/ currentID' # currentID)
          => (authResp'.op = "Register" /\ authResp'.status = 201)]_vars

\* A Login has just succeeded for a registered user, who is still stored.
C16_Witness ==
    /\ authResp.op = "Login"
    /\ authResp.status = 200
    /\ session.has
    /\ session.user.ID \in DOMAIN users
    /\ users[session.user.ID] = session.user
    /\ session.user.ID # AdminUser.ID

\* C17: a goroutine holds the repository lock only inside GetByEmail and
\* Create: none while it hashes or verifies a password, and a Register has
\* its hash computed before it asks for the write lock.
C17_NoLockWhileHashing ==
    \A p \in Procs :
        /\ Holds(mu, p)
           <=> calls[p].pc \in {"GetByEmail.locked", "Create.locked", "Create.insert"}
        /\ calls[p].pc \in {"HashPassword", "VerifyPassword"} => ~Holds(mu, p)
        /\ calls[p].pc \in {"Create", "Create.locked", "Create.insert"}
           => calls[p].user.PasswordHash.wf
        /\ calls[p].pc = "HashPassword" => ~calls[p].user.PasswordHash.wf

\* While one goroutine hashes a password, the other holds the write lock.
C17_Witness ==
    \E p \in Procs : \E q \in Procs :
        /\ calls[p].pc = "HashPassword"
        /\ mu.writer = q
        /\ calls[q].pc = "Create.insert"

\* The environment is labelled production.
Production(env) == env["ENV"].set /\ env["ENV"].val = "production"

\* A signing secret other than the default has been supplied.
SecretSupplied(env) == env["JWT_SECRET"].set /\ env["JWT_SECRET"].val # DefaultSecret

\* C18: under every environment, config.Load panics and returns no Config
\* exactly when ENV is production and no secret other than the default is
\* supplied; otherwise it returns a Config whose JWTSecret is the value of
\* JWT_SECRET, or the default when the variable is not set. The service runs
\* with the secret of the Config returned last.
C18_LoadFailsFastInProduction ==
    /\ Load(environ).panic <=> (Production(environ) /\ ~SecretSupplied(environ))
    /\ Load(environ).panic => Load(environ).cfg = NoConfig
    /\ ~Load(environ).panic
       => Load(environ).cfg.JWTSecret =
              IF environ["JWT_SECRET"].set THEN environ["JWT_SECRET"].val
              ELSE DefaultSecret
    /\ loaded.called
       => /\ loaded.panic <=> loaded.cfg = NoConfig
          /\ ~loaded.panic => jwtSecret = loaded.cfg.JWTSecret

\* Load has just panicked in production with JWT_SECRET set to the default
\* value, after an earlier Load had returned a Config with another secret.
C18_Witness ==
    /\ loaded.called
    /\ loaded.panic
    /\ loaded = Load(environ)
    /\ environ["JWT_SECRET"] = Set(DefaultSecret)
    /\ jwtSecret = "s1"

\* C19: the hash HashPassword returned for a password verifies that
\* password and no other one, and VerifyPassword is false for a stored
\* string that is no bcrypt hash.
C19_HasherRoundTrip ==
    \A p \in Procs :
        /\ calls[p].pc = "Create"
           => /\ VerifyPassword(calls[p].user.PasswordHash, calls[p].password)
              /\ \A p2 \in HasherPasswords :
                     p2 # calls[p].password
                     => ~VerifyPassword(calls[p].user.PasswordHash, p2)
        /\ (calls[p].pc = "VerifyPassword" /\ ~calls[p].user.PasswordHash.wf)
           => ~VerifyPassword(calls[p].user.PasswordHash, calls[p].password)

\* A Login with 72 bytes p followed by x is about to pass VerifyPassword
\* against the stored hash of the 72 bytes p alone.
C19_Witness ==
    \E p \in Procs : \E s \in Salts :
        /\ calls[p].pc = "VerifyPassword"
        /\ calls[p].password = Rep("p", MaxKeyBytes) \o Rep("x", 1)
        /\ calls[p].user.PasswordHash = HashPassword(Rep("p", MaxKeyBytes), s).hash
        /\ VerifyPassword(calls[p].user.PasswordHash, calls[p].password)

\* C20: under every sequence of Create, Update and Delete calls, each
\* repository's next-id counter is greater than every stored id and never
\* decreases; a successful Create stores its entry under the counter's value,
\* an id no entry holds, and advances the counter by one, so that each id is
\* greater than all assigned before it and none is used twice; a failed
\* Create leaves the counter and the map as they were; nothing else adds a
\* key. The same for InMemoryTaskRepository.
C20_FreshIdentifiers ==
    /\ [](/\ \A id \in DOMAIN users : id < currentID /\ users[id].ID = id
          /\ \A id \in DOMAIN tasks : id < taskCurrentID /\ tasks[id].ID = id)
    /\ [][/\ currentID' >= currentID
          /\ currentID' # currentID
             => /\ currentID' = currentID + 1
                /\ DOMAIN users' = DOMAIN users \cup {currentID}
                /\ authResp'.op = "Create" /\ authResp'.err = "nil"
          /\ DOMAIN users' \subseteq DOMAIN users \cup {currentID}
          /\ currentID \in DOMAIN users' => currentID' # currentID
          /\ (authResp'.op = "Create" /\ authResp'.err # "nil")
             => (users' = users /\ emails' = emails /\ currentID' = currentID)
          /\ taskCurrentID' >= taskCurrentID
          /\ taskCurrentID' # taskCurrentID
             => /\ taskCurrentID' = taskCurrentID + 1
                /\ DOMAIN tasks' = DOMAIN tasks \cup {taskCurrentID}
                /\ req'.op = "CreateTask" /\ req'.status = 201
          /\ DOMAIN tasks' \subseteq DOMAIN tasks \cup {taskCurrentID}
          /\ taskCurrentID \in DOMAIN tasks' => taskCurrentID' # taskCurrentID
          /\ (req'.op = "CreateTask" /\ req'.status # 201)
             => (tasks' = tasks /\ taskCurrentID' = taskCurrentID)]_vars

\* User 2 and task 3 were created and deleted; the next Create of each
\* repository did not give their ids out again.
C20_Witness ==
    /\ DOMAIN users = {1, 3}
    /\ currentID = 4
    /\ authResp.op = "Create" /\ authResp.err = "nil"
    /\ DOMAIN tasks = {1, 2, 4}
    /\ taskCurrentID = 5

\* Two titles are the same to isDuplicateTitle.
SameTitle(a, b) == ToLower(TrimSpace(a)) = ToLower(TrimSpace(b))

TasksTitled(ts, title) == {id \in DOMAIN ts : SameTitle(ts[id].Title, title)}

TaskStepOf(p) == taskCalls'[p] # taskCalls[p]

(***************************************************************************)
(* C21: the duplicate-title check of CreateTask is no uniqueness guarantee *)
(* under concurrency. The check is made on the tasks GetAll returned; the  *)
(* Create that follows it inserts the task whatever the store holds by     *)
(* then: it answers 201, stores the task under the next id, and when       *)
(* another request has stored the same title in between, the store ends    *)
(* with two tasks of that title.                                           *)
(***************************************************************************)
C21_DuplicateCheckNotAtomic ==
    [][\A p \in TaskProcs :
          (taskCalls[p].pc = "Create.locked" /\ TaskStepOf(p))
          => /\ taskCalls'[p].status = 201
             /\ taskCurrentID \in DOMAIN tasks'
             /\ tasks'[taskCurrentID].Title = taskCalls[p].task.Title
             /\ TasksTitled(tasks', taskCalls[p].task.Title)
                    = TasksTitled(tasks, taskCalls[p].task.Title) \cup {taskCurrentID}]_vars

\* Two CreateTask requests with titles equal after trimming and lower-casing
\* both passed isDuplicateTitle and were answered 201, and the store holds
\* two tasks with that title.
C21_Witness ==
    \E p, q \in TaskProcs :
        /\ p # q
        /\ taskCalls[p].op = "CreateTask" /\ taskCalls[p].status = 201
        /\ taskCalls[q].op = "CreateTask" /\ taskCalls[q].status = 201
        /\ SameTitle(taskCalls[p].title, taskCalls[q].title)
        /\ taskCalls[p].title # taskCalls[q].title
        /\ taskCalls[p].task.ID # taskCalls[q].task.ID
        /\ {taskCalls[p].task.ID, taskCalls[q].task.ID}
               \subseteq TasksTitled(tasks, taskCalls[p].title)

\* hash is what HashPassword makes of the password, for some salt.
HashOf(hash, password) ==
    \E s \in Salts : LET h == HashPassword(password, s)
                     IN  h.err = "nil" /\ h.hash = hash

(***************************************************************************)
(* C22: the Register/Login round trip. A Register that succeeds stores a   *)
(* user with the request's username and email and the hash of its          *)
(* password; a Login whose lookup runs while a user with its email is      *)
(* stored gets exactly that stored user; and a Login that got a user whose *)
(* hash is the hash of its password is answered 200 with that user's id,   *)
(* username and email. So Login(email, p) succeeds with the registered     *)
(* user for as long as the user is stored unchanged, whatever the other    *)
(* goroutine does between the steps.                                       *)
(***************************************************************************)
C22_RegisterLoginRoundTrip ==
    [][\A p \in Procs :
          StepOf(p) =>
             /\ calls[p].pc = "Create.insert"
                => /\ calls'[p].status = 201
                   /\ calls'[p].user.ID = currentID
                   /\ currentID \in DOMAIN users'
                   /\ users'[currentID] = calls'[p].user
                   /\ calls'[p].user.Username = calls[p].username
                   /\ calls'[p].user.Email = calls[p].email
                   /\ HashOf(calls'[p].user.PasswordHash, calls[p].password)
             /\ (calls[p].pc = "GetByEmail.locked" /\ calls[p].op = "Login")
                => \A id \in DOMAIN users :
                       users[id].Email = calls[p].email
                       => /\ calls'[p].pc = "VerifyPassword"
                          /\ calls'[p].user = users[id]
             /\ (calls[p].pc = "VerifyPassword"
                 /\ HashOf(calls[p].user.PasswordHash, calls[p].password))
                => /\ calls'[p].status = 200
                   /\ calls'[p].err = "nil"
                   /\ calls'[p].user.ID = calls[p].user.ID
                   /\ calls'[p].user.Username = calls[p].user.Username
                   /\ calls'[p].user.Email = calls[p].user.Email
                   /\ session'.user = calls[p].user]_vars

\* A Login with the email and password of a registered user was answered
\* 200 with that user, who is stored as Register stored it, while the other
\* goroutine is in the middle of a Register of its own.
C22_Witness ==
    \E p, q \in Procs :
        /\ p # q
        /\ calls[p].op = "Login" /\ calls[p].status = 200
        /\ calls[p].user.ID >= 2
        /\ calls[p].user.Username \in ConcurrentUsernames
        /\ calls[p].user.Email = calls[p].email
        /\ calls[p].user.ID \in DOMAIN users
        /\ users[calls[p].user.ID] = calls[p].user
        /\ calls[q].op = "Register" /\ calls[q].pc = "Create.locked"

\* Every email a request or an Update may carry.
AllEmails == Emails \cup {"b@x.com"}

(***************************************************************************)
(* C23: whenever the write lock of the user repository is not held, the    *)
(* email index and the users map agree: every index entry email -> id      *)
(* points at a stored user with that id and that email, and every stored   *)
(* user is indexed under its email with its id. So GetByEmail never        *)
(* reports the "user not found" inconsistency and never returns a user     *)
(* with another email than the one asked for.                              *)
(***************************************************************************)
C23_IndexConsistent ==
    mu.writer = 0 =>
        /\ \A e \in DOMAIN emails :
              /\ emails[e] \in DOMAIN users
              /\ users[emails[e]].Email = e
              /\ users[emails[e]].ID = emails[e]
        /\ \A id \in DOMAIN users :
              /\ users[id].Email \in DOMAIN emails
              /\ emails[users[id].Email] = users[id].ID
              /\ users[id].ID = id
        /\ \A e \in AllEmails :
              /\ GetByEmail(Repo, e).err # "user not found"
              /\ GetByEmail(Repo, e).err = "nil" => GetByEmail(Repo, e).user.Email = e

\* With no writer in the repository and a GetByEmail reading it: a user was
\* created and deleted, and a later user was moved to another email by
\* Update.
C23_Witness ==
    /\ mu.writer = 0
    /\ \E p \in Procs : calls[p].pc = "GetByEmail.locked"
    /\ \E j \in DOMAIN users :
          /\ j > 2
          /\ users[j].Email = "b@x.com"
    /\ currentID > Cardinality(DOMAIN users) + 1

UsernamesOf(us) == {us[id].Username : id \in DOMAIN us}

(***************************************************************************)
(* C24: usernames are unique in the user store after any sequence of       *)
(* Create, Update and Delete calls: no two stored users have the same      *)
(* username; and a Create whose username is that of a stored user fails    *)
(* and leaves the store unchanged, so that a Create that succeeds brings a *)
(* username no stored user has.                                            *)
(***************************************************************************)
C24_UniqueUsernames ==
    /\ [](\A i \in DOMAIN users : \A j \in DOMAIN users :
             i # j => users[i].Username # users[j].Username)
    /\ [][authResp'.op = "Create"
          => IF authResp'.err = "nil"
             THEN /\ currentID \in DOMAIN users'
                  /\ users'[currentID].Username \notin UsernamesOf(users)
             ELSE UNCHANGED userVars]_vars

\* Two stored users have the same username, each under its own email.
C24_Witness ==
    \E i \in DOMAIN users : \E j \in DOMAIN users :
        /\ i # j
        /\ users[i].Username = users[j].Username
        /\ users[i].Email # users[j].Email
        /\ emails[users[i].Email] = i
        /\ emails[users[j].Email] = j

\* Goroutines p and q have both been answered 200 to UpdateTask requests on
\* the same task, p's setting only the title and q's only the completed flag.
DisjointUpdatesDone(p, q) ==
    /\ p # q
    /\ taskCalls[p].op = "UpdateTask" /\ taskCalls[p].status = 200
    /\ taskCalls[q].op = "UpdateTask" /\ taskCalls[q].status = 200
    /\ taskCalls[p].id = taskCalls[q].id
    /\ taskCalls[p].hasTitle /\ ~taskCalls[p].hasCompleted
    /\ ~taskCalls[q].hasTitle /\ taskCalls[q].hasCompleted

(***************************************************************************)
(* C25: no update is lost. After two UpdateTask calls on the same task,    *)
(* one setting only Title and the other only Completed, have both returned *)
(* successfully, the stored task carries both new values, under every      *)
(* interleaving of the two calls.                                          *)
(***************************************************************************)
C25_NoLostUpdate ==
    \A p, q \in TaskProcs :
        (DisjointUpdatesDone(p, q) /\ taskCalls[p].id \in DOMAIN tasks)
        => /\ tasks[taskCalls[p].id].Title = TrimSpace(taskCalls[p].title)
           /\ tasks[taskCalls[p].id].Completed = taskCalls[q].completed

\* Both updates of the seeded task 1 were answered 200, the response to the
\* first carries its new title, and the stored task has the old title again
\* with the new completed flag: the second Update wrote back the copy it had
\* read before the first.
C25_Witness ==
    \E p, q \in TaskProcs :
        /\ DisjointUpdatesDone(p, q)
        /\ taskCalls[p].id = 1
        /\ taskCalls[p].task.Title = TrimSpace(Renamed)
        /\ 1 \in DOMAIN tasks
        /\ tasks[1].Title = NewInMemoryTaskRepository.tasks[1].Title
        /\ tasks[1].Completed = taskCalls[q].completed
        /\ tasks[1] = taskCalls[q].task

(***************************************************************************)
(* C26: a deleted task is never resurrected. Once a DeleteTask(id) has     *)
(* been answered 204 no task is stored under id, in any later state and    *)
(* whatever the concurrent UpdateTask, DeleteTask and CreateTask requests  *)
(* do: an id that was given out and is no longer stored stays out of the   *)
(* store, and an Update that reaches the repository after the task was     *)
(* deleted is answered 404 and leaves the store unchanged.                 *)
(***************************************************************************)
C26_NoResurrection ==
    /\ [](\A p \in TaskProcs :
             (taskCalls[p].op = "DeleteTask" /\ taskCalls[p].status = 204)
             => taskCalls[p].id \notin DOMAIN tasks)
    /\ [][/\ \A id \in 1..(taskCurrentID - 1) :
                id \notin DOMAIN tasks => id \notin DOMAIN tasks'
          /\ \A p \in TaskProcs :
                (TaskStepOf(p) /\ taskCalls[p].pc = "Update.locked"
                 /\ taskCalls[p].id \notin DOMAIN tasks)
                => /\ taskCalls'[p].status = 404
                   /\ taskCalls'[p].err \in NotFoundErrors
                   /\ UNCHANGED taskVars]_vars

\* An UpdateTask read task 1 before a DeleteTask removed it and reached the
\* repository's Update after: it was answered 404, the DeleteTask 204, a
\* CreateTask has stored a task since, and no task 1 is stored.
C26_Witness ==
    \E p, q, r \in TaskProcs :
        /\ taskCalls[p].op = "UpdateTask" /\ taskCalls[p].id = 1
        /\ taskCalls[p].err = "failed to update task: task with id not found"
        /\ taskCalls[p].status = 404
        /\ taskCalls[q].op = "DeleteTask" /\ taskCalls[q].id = 1
        /\ taskCalls[q].status = 204
        /\ taskCalls[r].op = "CreateTask" /\ taskCalls[r].status = 201
        /\ taskCalls[r].task.ID \in DOMAIN tasks
        /\ 1 \notin DOMAIN tasks

====
